---- MODULE Spec2Model ----
(***************************************************************************)
(* Arrays, tables and the pool cache of lib/xm_tables.c and                *)
(* lib/xm_mpool_agent.h, and the rings of lib/xm_ring.h, as state          *)
(* machines.                                                               *)
(*                                                                         *)
(* Memory is a heap of storage blocks.  A block is what one xm_palloc /    *)
(* xm_pcalloc call returns; a header's elts field is the number of a       *)
(* block, so two headers with the same elts share storage exactly as two   *)
(* C headers holding the same pointer do.  Storage is counted in elements  *)
(* (one cell = elt_size bytes).  Strings are sequences of byte values.     *)
(***************************************************************************)
EXTENDS Integers, Sequences, FiniteSets, TLC

VARIABLES
    heap,    \* the storage blocks of the arena
    arr,     \* the array headers of the caller, by name
    npush,   \* per array: pushes since xm_array_make with nothing in between, or -1
    tab,     \* the table headers of the caller, by name
    fault,   \* the process died on a null pointer
    shared,  \* steps taken from the one that made two tables share storage
    mpa,     \* the xm_mpool_agent_t
    pools,   \* every arena created so far, by number
    last     \* the call made by the last step, with what it returned

vars == <<heap, arr, npush, tab, fault, shared, shared, mpa, pools, last>>

----------------------------------------------------------------------------
(* Bounds of the exploration *)

\* an array is grown to at most this many elements
MaxArr == 2
\* a table is grown to at most this many entries
MaxElts == 3
\* xm_array_pstrcat is applied to arrays of up to this many strings
MaxStrs == 3
\* a table value is merged only while the result has at most this many bytes
MaxValLen == 4
\* this many steps are taken after two tables came to share their storage
MaxSharedOps == 2

----------------------------------------------------------------------------
(* C values *)

\* the null pointer, and an all-zero cell: no C string holds the byte 0
NULL == <<0>>
\* a cell of xm_palloc'ed memory that nothing has written yet
Uninit == <<-1>>

\* TLC keeps [x \in S |-> e] as an unevaluated function; SeqOf and FcnOf
\* give the sequence and the function themselves
SeqOf(f) == SubSeq(f, 1, Len(f))
FcnOf(f) == f @@ << >>

Max(x, y) == IF x >= y THEN x ELSE y

\* strlen: a string is the sequence of its bytes before the terminator
strlen(s) == Len(s)

\* tolower on one byte
tolower(c) == IF c >= 65 /\ c <= 90 THEN c + 32 ELSE c

\* byte i of string s as C reads it: the terminator after the last byte
ByteAt(s, i) == IF i <= Len(s) THEN s[i] ELSE 0

RECURSIVE strcasecmp_from(_, _, _)
strcasecmp_from(s1, s2, i) ==
    LET c1 == tolower(ByteAt(s1, i))
        c2 == tolower(ByteAt(s2, i))
    IN IF c1 # c2 THEN c1 - c2
       ELSE IF c1 = 0 THEN 0
       ELSE strcasecmp_from(s1, s2, i + 1)

\* strcasecmp: < 0, 0 or > 0
strcasecmp(s1, s2) == strcasecmp_from(s1, s2, 1)

----------------------------------------------------------------------------
(* The arena: xm_palloc returns a block no header refers to *)

NewBlock(H) == CHOOSE b \in 0..Cardinality(DOMAIN H) :
                   /\ b \notin DOMAIN H
                   /\ \A c \in 0..Cardinality(DOMAIN H) : c \notin DOMAIN H => b <= c

\* H with block b holding cells
Store(H, b, cells) == FcnOf([x \in (DOMAIN H) \cup {b} |-> IF x = b THEN cells ELSE H[x]])

\* The headers of the machine in a fixed order, as a sequence of names
HdrOrder == <<"x", "y", "t", "s">>

\* the elts pointer of the header called nm
EltsOf(A, T, nm) == IF nm \in DOMAIN A THEN A[nm].elts
                    ELSE IF nm \in DOMAIN T THEN T[nm].a.elts ELSE -1

\* A block is garbage once no header points to it: the arena never hands it
\* out again before a reset and nothing can read it.  The value of a pointer
\* carries no meaning either, so the live blocks are numbered in the order
\* in which the headers refer to them: BlockNo(A, T, b) is the number given
\* to block b.
FirstRef(A, T, b) == CHOOSE i \in 1..Len(HdrOrder) :
                        /\ EltsOf(A, T, HdrOrder[i]) = b
                        /\ \A j \in 1..(i - 1) : EltsOf(A, T, HdrOrder[j]) # b

BlockNo(A, T, b) ==
    Cardinality({EltsOf(A, T, HdrOrder[j]) : j \in 1..(FirstRef(A, T, b) - 1)} \ {-1})

Reachable(A, T) == {A[h].elts : h \in DOMAIN A} \cup {T[t].a.elts : t \in DOMAIN T}

Collect(H, A, T) ==
    FcnOf([k \in {BlockNo(A, T, b) : b \in Reachable(A, T)} |->
        H[CHOOSE b \in Reachable(A, T) : BlockNo(A, T, b) = k]])

\* the array headers A with their pointers renumbered as Collect numbers them
Renumber(A, T) == FcnOf([h \in DOMAIN A |-> [A[h] EXCEPT !.elts = BlockNo(A, T, A[h].elts)]])

----------------------------------------------------------------------------
(* The array functions.  Each takes the heap H and a header a and gives    *)
(* the heap and the header afterwards.                                     *)

\* sizeof(char * ), the element size of the arrays of strings
PtrSize == 8
\* sizeof(xm_table_entry_t): two pointers and the checksum, padded
EntrySize == 24

\* a table entry that nothing has written yet, and an all-zero one
UninitEntry == [key |-> Uninit, val |-> Uninit, key_checksum |-> Uninit]
ZeroEntry == [key |-> NULL, val |-> NULL, key_checksum |-> <<0, 0, 0, 0>>]

\* one element of xm_palloc'ed and of xm_pcalloc'ed / memset memory
Fresh(elt_size) == IF elt_size = EntrySize THEN UninitEntry ELSE Uninit
Zero(elt_size) == IF elt_size = EntrySize THEN ZeroEntry ELSE NULL

\* a constructor that takes the number of elements asked for as it is
make_array_core_noclamp(H, p, nelts, elt_size, clear) ==
    LET nb == NewBlock(H)
    IN [H |-> Store(H, nb, SeqOf([i \in 1..nelts |-> IF clear THEN Zero(elt_size)
                                                          ELSE Fresh(elt_size)])),
        a |-> [pool |-> p, elts |-> nb, elt_size |-> elt_size,
               nelts |-> 0, nalloc |-> nelts]]

make_array_core(H, p, nelts, elt_size, clear) ==
    LET n  == IF nelts < 1 THEN 1 ELSE nelts
        nb == NewBlock(H)
    IN [H |-> Store(H, nb, SeqOf([i \in 1..n |-> IF clear THEN Zero(elt_size)
                                                      ELSE Fresh(elt_size)])),
        a |-> [pool |-> p, elts |-> nb, elt_size |-> elt_size,
               nelts |-> 0, nalloc |-> n]]

\* the null pointer where a header is expected
NullArray == [null |-> TRUE]

\* a pop that clears the slot it gives up
xm_array_pop_wipe(H, a) ==
    IF a = NullArray \/ a.nelts = 0
    THEN [H |-> H, a |-> a, ret |-> -1]
    ELSE [H |-> [H EXCEPT ![a.elts][a.nelts] = Zero(a.elt_size)],
          a |-> [a EXCEPT !.nelts = a.nelts - 1], ret |-> a.nelts - 1]

\* (a == NULL) || (a->nelts == 0)
xm_is_empty_array(a) == a = NullArray \/ a.nelts = 0

xm_array_make(H, p, nelts, elt_size) == make_array_core(H, p, nelts, elt_size, TRUE)

xm_array_clear(H, a) == [H |-> H, a |-> [a EXCEPT !.nelts = 0]]

\* a pop that looks at the pointer but not at the count
xm_array_pop_unchecked(H, a) ==
    IF a = NullArray THEN [H |-> H, a |-> a, ret |-> -1]
    ELSE [H |-> H, a |-> [a EXCEPT !.nelts = a.nelts - 1], ret |-> a.nelts - 1]

\* ret is the index (from 0) of the slot returned, -1 for NULL
xm_array_pop(H, a) ==
    IF xm_is_empty_array(a)
    THEN [H |-> H, a |-> a, ret |-> -1]
    ELSE [H |-> H, a |-> [a EXCEPT !.nelts = a.nelts - 1], ret |-> a.nelts - 1]

\* a growth step that forgets the last element when it copies
array_grow_short(H, a, zero) ==
    LET new_size == IF a.nalloc <= 0 THEN 1 ELSE a.nalloc * 2
        nb       == NewBlock(H)
        new_data == SeqOf([i \in 1..new_size |->
                        IF i < a.nalloc THEN H[a.elts][i]
                        ELSE IF zero THEN Zero(a.elt_size) ELSE Fresh(a.elt_size)])
    IN [H |-> Store(H, nb, new_data),
        a |-> [a EXCEPT !.elts = nb, !.nalloc = new_size]]

\* the growth step shared by the two push functions; zero tells whether
\* the new slack is cleared
array_grow(H, a, zero) ==
    LET new_size == IF a.nalloc <= 0 THEN 1 ELSE a.nalloc * 2
        nb       == NewBlock(H)
        new_data == SeqOf([i \in 1..new_size |->
                        IF i <= a.nalloc THEN H[a.elts][i]
                        ELSE IF zero THEN Zero(a.elt_size) ELSE Fresh(a.elt_size)])
    IN [H |-> Store(H, nb, new_data),
        a |-> [a EXCEPT !.elts = nb, !.nalloc = new_size]]

\* the slot returned is index nelts - 1 of the header afterwards
xm_array_push(H, a) ==
    LET g == IF a.nelts = a.nalloc THEN array_grow(H, a, TRUE) ELSE [H |-> H, a |-> a]
    IN [H |-> g.H, a |-> [g.a EXCEPT !.nelts = g.a.nelts + 1]]

xm_array_push_noclear(H, a) ==
    LET g == IF a.nelts = a.nalloc THEN array_grow(H, a, FALSE) ELSE [H |-> H, a |-> a]
    IN [H |-> g.H, a |-> [g.a EXCEPT !.nelts = g.a.nelts + 1]]

\* *slot = v for the slot at index i (from 0) of header a
WriteElt(H, a, i, v) == [H EXCEPT ![a.elts][i + 1] = v]

RECURSIVE cat_new_size(_, _)
cat_new_size(need, new_size) ==
    IF need > new_size THEN cat_new_size(need, new_size * 2) ELSE new_size

\* memcpy(cells + at, cells, n) done one element after the other from the
\* low addresses up: an element already overwritten is read as overwritten
RECURSIVE copy_ascending(_, _, _, _)
copy_ascending(cells, at, n, j) ==
    IF j > n THEN cells
    ELSE copy_ascending(SeqOf([i \in 1..Len(cells) |->
                                  IF i = at + j THEN cells[j] ELSE cells[i]]),
                        at, n, j + 1)

\* memcpy on regions that overlap is undefined: ascending says whether the
\* build's memcpy copies from the low addresses up or as memmove does
xm_array_cat(H, dst, src, ascending) ==
    LET grow == dst.nelts + src.nelts > dst.nalloc
        new_size == cat_new_size(dst.nelts + src.nelts,
                                 IF dst.nalloc <= 0 THEN 1 ELSE dst.nalloc * 2)
        nb == NewBlock(H)
        \* xm_pcalloc, then memcpy of the old nalloc elements
        H1 == IF grow
              THEN Store(H, nb, SeqOf([i \in 1..new_size |->
                                    IF i <= dst.nalloc THEN H[dst.elts][i]
                                    ELSE Zero(dst.elt_size)]))
              ELSE H
        d1 == IF grow THEN [dst EXCEPT !.elts = nb, !.nalloc = new_size] ELSE dst
        \* memcpy of src's active elements behind dst's
        H2 == IF ascending /\ src.elts = d1.elts
              THEN [H1 EXCEPT ![d1.elts] =
                       copy_ascending(H1[d1.elts], d1.nelts, src.nelts, 1)]
              ELSE [H1 EXCEPT ![d1.elts] =
                       SeqOf([i \in 1..Len(H1[d1.elts]) |->
                           IF i > d1.nelts /\ i <= d1.nelts + src.nelts
                           THEN H1[src.elts][i - d1.nelts]
                           ELSE H1[d1.elts][i]])]
    IN [H |-> H2, a |-> [d1 EXCEPT !.nelts = d1.nelts + src.nelts]]

\* a copy that leaves the slots behind the active elements as xm_palloc
\* gave them
xm_array_copy_nomemset(H, p, a) ==
    LET m  == make_array_core(H, p, a.nalloc, a.elt_size, FALSE)
        H1 == [m.H EXCEPT ![m.a.elts] =
                  SeqOf([i \in 1..m.a.nalloc |-> IF i <= a.nelts THEN H[a.elts][i]
                                            ELSE Fresh(a.elt_size)])]
    IN [H |-> H1, a |-> [m.a EXCEPT !.nelts = a.nelts]]

xm_array_copy(H, p, a) ==
    LET m  == make_array_core(H, p, a.nalloc, a.elt_size, FALSE)
        \* memcpy of the active elements, memset of the rest
        H1 == [m.H EXCEPT ![m.a.elts] =
                  SeqOf([i \in 1..m.a.nalloc |-> IF i <= a.nelts THEN H[a.elts][i]
                                            ELSE Zero(a.elt_size)])]
    IN [H |-> H1, a |-> [m.a EXCEPT !.nelts = a.nelts]]

\* a header copy that keeps the capacity of the original
copy_array_hdr_keepcap(res, a) ==
    [res EXCEPT !.elts = a.elts, !.elt_size = a.elt_size,
                !.nelts = a.nelts, !.nalloc = a.nalloc]

\* res is the header being filled in: only the four fields are assigned
copy_array_hdr_core(res, a) ==
    [res EXCEPT !.elts = a.elts, !.elt_size = a.elt_size,
                !.nelts = a.nelts, !.nalloc = a.nelts]

\* a header fresh from xm_palloc, before any field is assigned
RawHdr == [pool |-> -1, elts |-> -1, elt_size |-> -1, nelts |-> -1, nalloc |-> -1]

xm_array_copy_hdr(H, p, a) ==
    [H |-> H, a |-> copy_array_hdr_core([RawHdr EXCEPT !.pool = p], a)]

xm_array_append(H, p, first, second) ==
    \* res is full (nalloc = nelts): the cat writes into the storage res
    \* shares only when second is empty, so its memcpy never overlaps
    LET res == xm_array_copy_hdr(H, p, first)
    IN xm_array_cat(res.H, res.a, second, FALSE)

\* pass one of xm_array_pstrcat: the length computed for the result
RECURSIVE pstrcat_len(_, _, _, _, _)
pstrcat_len(cells, nelts, sep, i, len) ==
    LET len1 == IF cells[i + 1] # NULL THEN len + strlen(cells[i + 1]) ELSE len
    IN IF i + 1 >= nelts THEN len1
       ELSE pstrcat_len(cells, nelts, sep, i + 1, IF sep # 0 THEN len1 + 1 ELSE len1)

\* pass two of xm_array_pstrcat: the bytes written through cp
RECURSIVE pstrcat_copy(_, _, _, _, _)
pstrcat_copy(cells, nelts, sep, i, res) ==
    LET res1 == IF cells[i + 1] # NULL THEN res \o cells[i + 1] ELSE res
    IN IF i + 1 >= nelts THEN res1
       ELSE pstrcat_copy(cells, nelts, sep, i + 1,
                         IF sep # 0 THEN Append(res1, sep) ELSE res1)

\* the string returned; sep = 0 is the NUL separator
xm_array_pstrcat(H, a, sep) ==
    IF a.nelts <= 0 THEN << >>
    ELSE pstrcat_copy(H[a.elts], a.nelts, sep, 0, << >>)

----------------------------------------------------------------------------
(* The table functions.  A table header t is the array header t.a and the  *)
(* index; an entry is a cell [key, val, key_checksum] of t.a's storage.    *)
(* Positions count from 0 as in C.  A function that dereferences a null    *)
(* key gives fault = TRUE: the process dies there.                         *)

TABLE_HASH_SIZE == 32

\* the low five bits of the first byte (TABLE_INDEX_MASK & *key)
TABLE_HASH(key) == ByteAt(key, 1) % TABLE_HASH_SIZE

\* one byte & 0xdf, the byte of CASE_MASK
CaseMaskByte(b) == b - ((b \div 32) % 2) * 32

RECURSIVE BitOr(_, _)
BitOr(x, y) == IF x = 0 THEN y
               ELSE IF y = 0 THEN x
               ELSE (IF x % 2 = 1 \/ y % 2 = 1 THEN 1 ELSE 0)
                    + 2 * BitOr(x \div 2, y \div 2)

\* A uint32_t is kept as its four bytes, most significant first.
\* (uint32_t)*k for a char that is signed: bytes from 0x80 on sign-extend
U32OfChar(b) == IF b >= 128 THEN <<255, 255, 255, b>> ELSE <<0, 0, 0, b>>
U32Shl8(w) == <<w[2], w[3], w[4], 0>>
U32Or(w, v) == SeqOf([i \in 1..4 |-> BitOr(w[i], v[i])])

\* a checksum of the first four bytes as they are, without CASE_MASK
COMPUTE_KEY_CHECKSUM_nomask(key) ==
    LET c1 == U32OfChar(ByteAt(key, 1))
        s1 == U32Shl8(c1)
        c2 == IF c1 # <<0, 0, 0, 0>> THEN U32OfChar(ByteAt(key, 2)) ELSE c1
        s2 == U32Shl8(IF c1 # <<0, 0, 0, 0>> THEN U32Or(s1, c2) ELSE s1)
        c3 == IF c2 # <<0, 0, 0, 0>> THEN U32OfChar(ByteAt(key, 3)) ELSE c2
        s3 == U32Shl8(IF c2 # <<0, 0, 0, 0>> THEN U32Or(s2, c3) ELSE s2)
        c4 == IF c3 # <<0, 0, 0, 0>> THEN U32OfChar(ByteAt(key, 4)) ELSE c3
    IN IF c3 # <<0, 0, 0, 0>> THEN U32Or(s3, c4) ELSE s3

\* COMPUTE_KEY_CHECKSUM: byte i + 1 is read only if byte i is not the
\* terminator
COMPUTE_KEY_CHECKSUM(key) ==
    LET c1 == U32OfChar(ByteAt(key, 1))
        s1 == U32Shl8(c1)
        c2 == IF c1 # <<0, 0, 0, 0>> THEN U32OfChar(ByteAt(key, 2)) ELSE c1
        s2 == U32Shl8(IF c1 # <<0, 0, 0, 0>> THEN U32Or(s1, c2) ELSE s1)
        c3 == IF c2 # <<0, 0, 0, 0>> THEN U32OfChar(ByteAt(key, 3)) ELSE c2
        s3 == U32Shl8(IF c2 # <<0, 0, 0, 0>> THEN U32Or(s2, c3) ELSE s2)
        c4 == IF c3 # <<0, 0, 0, 0>> THEN U32OfChar(ByteAt(key, 4)) ELSE c3
        s4 == IF c3 # <<0, 0, 0, 0>> THEN U32Or(s3, c4) ELSE s3
    IN SeqOf([i \in 1..4 |-> CaseMaskByte(s4[i])])

\* index_first and index_last are kept for the buckets whose bit is set in
\* index_initialized: every read of a slot in xm_tables.c is behind
\* TABLE_INDEX_IS_INITIALIZED, so the slot of a clear bit holds a value
\* that nothing can observe.  SetIdx is the store f[b] = v.
SetIdx(f, b, v) == FcnOf([x \in (DOMAIN f) \cup {b} |-> IF x = b THEN v ELSE f[x]])

\* entry i (from 0) of the cells of a block
Elt(cells, i) == cells[i + 1]

\* the test of the scan loops: 0 no match, 1 match, 2 strcasecmp on a null key
KeyMatch(e, checksum, key) ==
    IF checksum # e.key_checksum THEN 0
    ELSE IF e.key = NULL THEN 2
    ELSE IF strcasecmp(e.key, key) = 0 THEN 1 ELSE 0

\* for (; next_elt <= end_elt; next_elt++): the first match from next on
RECURSIVE scan_match(_, _, _, _, _)
scan_match(cells, next, end, checksum, key) ==
    IF next > end THEN [found |-> FALSE, at |-> -1, fault |-> FALSE]
    ELSE LET m == KeyMatch(Elt(cells, next), checksum, key)
         IN IF m = 2 THEN [found |-> FALSE, at |-> next, fault |-> TRUE]
            ELSE IF m = 1 THEN [found |-> TRUE, at |-> next, fault |-> FALSE]
            ELSE scan_match(cells, next + 1, end, checksum, key)

xm_is_empty_table(t) == t.a.nelts = 0

xm_table_make(H, p, nelts) ==
    LET m == make_array_core(H, p, nelts, EntrySize, FALSE)
    IN [H |-> m.H,
        t |-> [a |-> m.a, index_initialized |-> {},
               index_first |-> << >>, index_last |-> << >>]]

\* a copy that takes a new header over the entries of t
xm_table_copy_shallow(H, p, t) ==
    [H |-> H,
     t |-> [a |-> [t.a EXCEPT !.pool = p],
            index_initialized |-> t.index_initialized,
            index_first |-> t.index_first,
            index_last |-> t.index_last]]

xm_table_copy(H, p, t) ==
    LET m  == make_array_core(H, p, t.a.nalloc, EntrySize, FALSE)
        H1 == [m.H EXCEPT ![m.a.elts] =
                  SeqOf([i \in 1..m.a.nalloc |-> IF i <= t.a.nelts THEN H[t.a.elts][i]
                                            ELSE m.H[m.a.elts][i]])]
    IN [H |-> H1,
        t |-> [a |-> [m.a EXCEPT !.nelts = t.a.nelts],
               index_initialized |-> t.index_initialized,
               index_first |-> t.index_first,
               index_last |-> t.index_last]]

\* the loop of table_reindex from entry i on
RECURSIVE reindex_from(_, _, _)
reindex_from(cells, t, i) ==
    IF i >= t.a.nelts THEN [t |-> t, fault |-> FALSE]
    ELSE IF Elt(cells, i).key = NULL THEN [t |-> t, fault |-> TRUE]
    ELSE LET hash == TABLE_HASH(Elt(cells, i).key)
             t1   == [t EXCEPT !.index_last = SetIdx(@, hash, i)]
             t2   == IF hash \notin t1.index_initialized
                     THEN [t1 EXCEPT !.index_first = SetIdx(@, hash, i),
                                     !.index_initialized = @ \cup {hash}]
                     ELSE t1
         IN reindex_from(cells, t2, i + 1)

\* t->index_initialized = 0
ClearIndex(t) == [t EXCEPT !.index_initialized = {},
                           !.index_first = << >>, !.index_last = << >>]

table_reindex(H, t) ==
    LET r == reindex_from(H[t.a.elts], ClearIndex(t), 0)
    IN [H |-> H, t |-> r.t, fault |-> r.fault]

xm_table_clear(H, t) ==
    [H |-> H, fault |-> FALSE,
     t |-> [ClearIndex(t) EXCEPT !.a.nelts = 0]]

\* ret is the value found, NULL for none
xm_table_get(H, t, key) ==
    IF key = NULL THEN [ret |-> NULL, fault |-> FALSE]
    ELSE LET hash == TABLE_HASH(key)
         IN IF hash \notin t.index_initialized THEN [ret |-> NULL, fault |-> FALSE]
            ELSE LET m == scan_match(H[t.a.elts], t.index_first[hash],
                                     t.index_last[hash],
                                     COMPUTE_KEY_CHECKSUM(key), key)
                 IN [ret |-> IF m.found THEN Elt(H[t.a.elts], m.at).val ELSE NULL,
                     fault |-> m.fault]

\* the label add_new_elt of xm_table_set and xm_table_merge
add_new_elt(H, t, hash, key, val, checksum) ==
    LET t1 == [t EXCEPT !.index_last = SetIdx(@, hash, t.a.nelts)]
        r  == xm_array_push_noclear(H, t1.a)
    IN [H |-> WriteElt(r.H, r.a, r.a.nelts - 1,
                       [key |-> key, val |-> val, key_checksum |-> checksum]),
        t |-> [t1 EXCEPT !.a = r.a], fault |-> FALSE]

\* the loop of xm_table_set that removes the other instances of the key:
\* dst = -1 is the null dst_elt
RECURSIVE set_remove(_, _, _, _, _, _, _, _)
set_remove(cells, next, end, dst, nelts, must, checksum, key) ==
    IF next > end
    THEN [cells |-> cells, next |-> next, dst |-> dst, nelts |-> nelts,
          must |-> must, fault |-> FALSE]
    ELSE LET m == KeyMatch(Elt(cells, next), checksum, key)
         IN IF m = 2
            THEN [cells |-> cells, next |-> next, dst |-> dst, nelts |-> nelts,
                  must |-> must, fault |-> TRUE]
            ELSE IF m = 1
            THEN set_remove(cells, next + 1, end, IF dst = -1 THEN next ELSE dst,
                            nelts - 1, must, checksum, key)
            ELSE IF dst # -1
            THEN set_remove([cells EXCEPT ![dst + 1] = Elt(cells, next)],
                            next + 1, end, dst + 1, nelts, TRUE, checksum, key)
            ELSE set_remove(cells, next + 1, end, dst, nelts, must, checksum, key)

\* a set that leaves the entries behind the bucket's range where they are
shift_rest_none(cells, next, table_end, dst) == cells

\* for (; next_elt < table_end; next_elt++) *dst_elt++ = *next_elt
RECURSIVE shift_rest(_, _, _, _)
shift_rest(cells, next, table_end, dst) ==
    IF next >= table_end THEN cells
    ELSE shift_rest([cells EXCEPT ![dst + 1] = Elt(cells, next)],
                    next + 1, table_end, dst + 1)

xm_table_set(H, t, key, val) ==
    LET checksum == COMPUTE_KEY_CHECKSUM(key)
        hash     == TABLE_HASH(key)
    IN IF hash \notin t.index_initialized
       THEN add_new_elt(H, [t EXCEPT !.index_first = SetIdx(@, hash, t.a.nelts),
                                     !.index_initialized = @ \cup {hash}],
                        hash, key, val, checksum)
       ELSE LET m == scan_match(H[t.a.elts], t.index_first[hash], t.index_last[hash],
                                checksum, key)
            IN IF m.fault THEN [H |-> H, t |-> t, fault |-> TRUE]
               ELSE IF ~m.found THEN add_new_elt(H, t, hash, key, val, checksum)
               ELSE LET table_end == t.a.nelts
                        c0 == [H[t.a.elts] EXCEPT ![m.at + 1].val = val]
                        r  == set_remove(c0, m.at + 1, t.index_last[hash], -1,
                                         t.a.nelts, FALSE, checksum, key)
                        c1 == IF r.dst # -1
                              THEN shift_rest(r.cells, r.next, table_end, r.dst)
                              ELSE r.cells
                        must == r.must \/ r.dst # -1
                        H1 == [H EXCEPT ![t.a.elts] = c1]
                        t1 == [t EXCEPT !.a.nelts = r.nelts]
                    IN IF r.fault THEN [H |-> H, t |-> t, fault |-> TRUE]
                       ELSE IF must THEN table_reindex(H1, t1)
                       ELSE [H |-> H1, t |-> t1, fault |-> FALSE]

\* the inner loop of xm_table_unset
RECURSIVE unset_remove(_, _, _, _, _, _, _)
unset_remove(cells, next, end, dst, nelts, checksum, key) ==
    IF next > end
    THEN [cells |-> cells, next |-> next, dst |-> dst, nelts |-> nelts,
          fault |-> FALSE]
    ELSE LET m == KeyMatch(Elt(cells, next), checksum, key)
         IN IF m = 2
            THEN [cells |-> cells, next |-> next, dst |-> dst, nelts |-> nelts,
                  fault |-> TRUE]
            ELSE IF m = 1
            THEN unset_remove(cells, next + 1, end, dst, nelts - 1, checksum, key)
            ELSE unset_remove([cells EXCEPT ![dst + 1] = Elt(cells, next)],
                              next + 1, end, dst + 1, nelts, checksum, key)

xm_table_unset(H, t, key) ==
    LET hash == TABLE_HASH(key)
    IN IF hash \notin t.index_initialized THEN [H |-> H, t |-> t, fault |-> FALSE]
       ELSE LET checksum == COMPUTE_KEY_CHECKSUM(key)
                m == scan_match(H[t.a.elts], t.index_first[hash], t.index_last[hash],
                                checksum, key)
            IN IF m.fault THEN [H |-> H, t |-> t, fault |-> TRUE]
               ELSE IF ~m.found THEN [H |-> H, t |-> t, fault |-> FALSE]
               ELSE LET table_end == t.a.nelts
                        r  == unset_remove(H[t.a.elts], m.at + 1, t.index_last[hash],
                                           m.at, t.a.nelts - 1, checksum, key)
                        c1 == shift_rest(r.cells, r.next, table_end, r.dst)
                    IN IF r.fault THEN [H |-> H, t |-> t, fault |-> TRUE]
                       ELSE table_reindex([H EXCEPT ![t.a.elts] = c1],
                                          [t EXCEPT !.a.nelts = r.nelts])

\* xm_pstrcat(p, a, b, c, NULL) of xm_string.h
xm_pstrcat3(a, b, c) == a \o b \o c
\* ", "
CommaSpace == <<44, 32>>

xm_table_merge(H, t, key, val) ==
    LET checksum == COMPUTE_KEY_CHECKSUM(key)
        hash     == TABLE_HASH(key)
    IN IF hash \notin t.index_initialized
       THEN add_new_elt(H, [t EXCEPT !.index_first = SetIdx(@, hash, t.a.nelts),
                                     !.index_initialized = @ \cup {hash}],
                        hash, key, val, checksum)
       ELSE LET m == scan_match(H[t.a.elts], t.index_first[hash], t.index_last[hash],
                                checksum, key)
            IN IF m.fault THEN [H |-> H, t |-> t, fault |-> TRUE]
               ELSE IF ~m.found THEN add_new_elt(H, t, hash, key, val, checksum)
               ELSE [H |-> [H EXCEPT ![t.a.elts][m.at + 1].val =
                               xm_pstrcat3(@, CommaSpace, val)],
                     t |-> t, fault |-> FALSE]

\* an add that moves the bucket's first position with every entry
xm_table_add_first(H, t, key, val) ==
    LET hash == TABLE_HASH(key)
        t2   == [t EXCEPT !.index_last = SetIdx(@, hash, t.a.nelts),
                          !.index_first = SetIdx(@, hash, t.a.nelts),
                          !.index_initialized = @ \cup {hash}]
        r    == xm_array_push_noclear(H, t2.a)
    IN [H |-> WriteElt(r.H, r.a, r.a.nelts - 1,
                       [key |-> key, val |-> val,
                        key_checksum |-> COMPUTE_KEY_CHECKSUM(key)]),
        t |-> [t2 EXCEPT !.a = r.a], fault |-> FALSE]

xm_table_add(H, t, key, val) ==
    LET hash == TABLE_HASH(key)
        t1   == [t EXCEPT !.index_last = SetIdx(@, hash, t.a.nelts)]
        t2   == IF hash \notin t1.index_initialized
                THEN [t1 EXCEPT !.index_first = SetIdx(@, hash, t.a.nelts),
                                !.index_initialized = @ \cup {hash}]
                ELSE t1
        r    == xm_array_push_noclear(H, t2.a)
    IN [H |-> WriteElt(r.H, r.a, r.a.nelts - 1,
                       [key |-> key, val |-> val,
                        key_checksum |-> COMPUTE_KEY_CHECKSUM(key)]),
        t |-> [t2 EXCEPT !.a = r.a], fault |-> FALSE]

\* a table header fresh from xm_palloc
RawTable == [a |-> RawHdr, index_initialized |-> {},
             index_first |-> << >>, index_last |-> << >>]

xm_table_overlay(H, p, overlay, base) ==
    LET res == [RawTable EXCEPT !.a = copy_array_hdr_core([RawHdr EXCEPT !.pool = p],
                                                          overlay.a)]
        \* res is full: no memcpy on regions that overlap
        c   == xm_array_cat(H, res.a, base.a, FALSE)
    IN table_reindex(c.H, [res EXCEPT !.a = c.a])

\* a comparison that also puts the second of two equal keys first
KeyAfter_orequal(cells, p, q) ==
    IF Elt(cells, p).key = NULL \/ Elt(cells, q).key = NULL THEN 2
    ELSE IF strcasecmp(Elt(cells, p).key, Elt(cells, q).key) >= 0 THEN 1 ELSE 0

\* strcasecmp(p->key, q->key) > 0 for the entries at positions p and q:
\* 0 no, 1 yes, 2 when a key is null
KeyAfter(cells, p, q) ==
    IF Elt(cells, p).key = NULL \/ Elt(cells, q).key = NULL THEN 2
    ELSE IF strcasecmp(Elt(cells, p).key, Elt(cells, q).key) > 0 THEN 1 ELSE 0

\* first pass of table_mergesort: sort pairs of elements
RECURSIVE sort_pairs(_, _, _, _)
sort_pairs(cells, values, n, i) ==
    IF i + 1 >= n THEN [values |-> values, fault |-> FALSE]
    ELSE LET c == KeyAfter(cells, values[i + 1], values[i + 2])
         IN IF c = 2 THEN [values |-> values, fault |-> TRUE]
            ELSE sort_pairs(cells,
                            IF c = 1
                            THEN [values EXCEPT ![i + 1] = values[i + 2],
                                                ![i + 2] = values[i + 1]]
                            ELSE values,
                            n, i + 2)

\* the for (;;) of table_mergesort: merge [b1, e1) and [b2, e2) onto dst
RECURSIVE merge_blocks(_, _, _, _, _, _, _)
merge_blocks(cells, values, b1, e1, b2, e2, dst) ==
    IF b1 = e1 THEN [values |-> dst \o SubSeq(values, b2 + 1, e2), fault |-> FALSE]
    ELSE IF b2 = e2 THEN [values |-> dst \o SubSeq(values, b1 + 1, e1), fault |-> FALSE]
    ELSE LET c == KeyAfter(cells, values[b1 + 1], values[b2 + 1])
         IN IF c = 2 THEN [values |-> dst, fault |-> TRUE]
            ELSE IF c = 1
            THEN merge_blocks(cells, values, b1, e1, b2 + 1, e2,
                              Append(dst, values[b2 + 1]))
            ELSE merge_blocks(cells, values, b1 + 1, e1, b2, e2,
                              Append(dst, values[b1 + 1]))

\* one pass over the pairs of blocks, then the left-over elements
RECURSIVE merge_pass(_, _, _, _, _, _)
merge_pass(cells, values, n, blocksize, next_start, dst) ==
    IF next_start + blocksize >= n
    THEN [values |-> dst \o SubSeq(values, Len(dst) + 1, n), fault |-> FALSE]
    ELSE LET block2_start == next_start + blocksize
             block2_end   == IF block2_start + blocksize > n THEN n
                             ELSE block2_start + blocksize
             r == merge_blocks(cells, values, next_start, block2_start,
                               block2_start, block2_end, dst)
         IN IF r.fault THEN r
            ELSE merge_pass(cells, values, n, blocksize,
                            next_start + blocksize + blocksize, r.values)

RECURSIVE merge_loop(_, _, _, _)
merge_loop(cells, values, n, blocksize) ==
    IF blocksize >= n THEN [values |-> values, fault |-> FALSE]
    ELSE LET r == merge_pass(cells, values, n, blocksize, 0, << >>)
         IN IF r.fault THEN r
            ELSE merge_loop(cells, r.values, n, blocksize + blocksize)

\* values: the positions of the entries, in the order of the sort array
table_mergesort(cells, values, n) ==
    LET r == sort_pairs(cells, values, n, 0)
    IN IF r.fault THEN r ELSE merge_loop(cells, r.values, n, 2)

\* the duplicate test of xm_table_compress on the entries at p and q
SameKey(cells, p, q) ==
    IF Elt(cells, p).key_checksum # Elt(cells, q).key_checksum THEN 0
    ELSE IF Elt(cells, p).key = NULL \/ Elt(cells, q).key = NULL THEN 2
    ELSE IF strcasecmp(Elt(cells, p).key, Elt(cells, q).key) = 0 THEN 1 ELSE 0

\* while (dup_last < sort_end && same key as *last) dup_last++
RECURSIVE dup_scan(_, _, _, _, _)
dup_scan(cells, sorted, n, lst, dup_last) ==
    IF dup_last >= n THEN [at |-> dup_last, fault |-> FALSE]
    ELSE LET c == SameKey(cells, sorted[dup_last + 1], sorted[lst + 1])
         IN IF c = 2 THEN [at |-> dup_last, fault |-> TRUE]
            ELSE IF c = 1 THEN dup_scan(cells, sorted, n, lst, dup_last + 1)
            ELSE [at |-> dup_last, fault |-> FALSE]

\* the values of sorted[next .. dup_last] joined with ", "
RECURSIVE merged_val(_, _, _, _)
merged_val(cells, sorted, next, dup_last) ==
    IF next >= dup_last THEN Elt(cells, sorted[next + 1]).val
    ELSE Elt(cells, sorted[next + 1]).val \o CommaSpace
         \o merged_val(cells, sorted, next + 1, dup_last)

\* do (*sort_next)->key = NULL; while (++sort_next <= dup_last)
RECURSIVE mark_null(_, _, _, _)
mark_null(cells, sorted, next, dup_last) ==
    LET c == [cells EXCEPT ![sorted[next + 1] + 1].key = NULL]
    IN IF next + 1 <= dup_last THEN mark_null(c, sorted, next + 1, dup_last) ELSE c

\* the while (sort_next < sort_end) of xm_table_compress
RECURSIVE compress_dups(_, _, _, _, _, _, _)
compress_dups(cells, sorted, n, lst, sort_next, dups_found, merge) ==
    IF sort_next >= n
    THEN [cells |-> cells, dups_found |-> dups_found, fault |-> FALSE]
    ELSE LET c == SameKey(cells, sorted[sort_next + 1], sorted[lst + 1])
         IN IF c = 2 THEN [cells |-> cells, dups_found |-> dups_found, fault |-> TRUE]
            ELSE IF c = 0
            THEN compress_dups(cells, sorted, n, sort_next, sort_next + 1,
                               dups_found, merge)
            ELSE LET d == dup_scan(cells, sorted, n, lst, sort_next + 1)
                     dup_last == d.at - 1
                     new_val  == IF merge
                                 THEN merged_val(cells, sorted, lst, dup_last)
                                 ELSE Elt(cells, sorted[dup_last + 1]).val
                     c1 == [cells EXCEPT ![sorted[lst + 1] + 1].val = new_val]
                     c2 == mark_null(c1, sorted, sort_next, dup_last)
                 IN IF d.fault
                    THEN [cells |-> cells, dups_found |-> TRUE, fault |-> TRUE]
                    ELSE compress_dups(c2, sorted, n, lst, dup_last + 1, TRUE, merge)

\* do { if (src->key) *dst++ = *src; } while (++src < last_elt)
RECURSIVE compact(_, _, _, _)
compact(cells, src, last_elt, dst) ==
    LET keep == Elt(cells, src).key # NULL
        c    == IF keep THEN [cells EXCEPT ![dst + 1] = Elt(cells, src)] ELSE cells
        d    == IF keep THEN dst + 1 ELSE dst
    IN IF src + 1 < last_elt THEN compact(c, src + 1, last_elt, d)
       ELSE [cells |-> c, dst |-> d]

XM_OVERLAP_TABLES_SET == "set"
XM_OVERLAP_TABLES_MERGE == "merge"

xm_table_compress(H, t, flags) ==
    IF t.a.nelts <= 1 THEN [H |-> H, t |-> t, fault |-> FALSE]
    ELSE LET cells == H[t.a.elts]
             s == table_mergesort(cells, SeqOf([i \in 1..t.a.nelts |-> i - 1]), t.a.nelts)
             d == compress_dups(cells, s.values, t.a.nelts, 0, 1, FALSE,
                                flags = XM_OVERLAP_TABLES_MERGE)
             c == IF d.dups_found THEN compact(d.cells, 0, t.a.nelts, 0)
                  ELSE [cells |-> d.cells, dst |-> t.a.nelts]
         IN IF s.fault \/ d.fault THEN [H |-> H, t |-> t, fault |-> TRUE]
            ELSE table_reindex([H EXCEPT ![t.a.elts] = c.cells],
                               [t EXCEPT !.a.nelts = c.dst])

xm_table_cat(H, t, s, ascending) ==
    LET n == t.a.nelts
        c == xm_array_cat(H, t.a, s.a, ascending)
        t1 == [t EXCEPT !.a = c.a]
    IN [H |-> c.H,
        t |-> IF n = 0
              THEN [t1 EXCEPT !.index_first = s.index_first,
                              !.index_last = s.index_last,
                              !.index_initialized = s.index_initialized]
              ELSE [t1 EXCEPT
                      !.index_last =
                          FcnOf([b \in t.index_initialized \cup s.index_initialized |->
                              IF b \in s.index_initialized THEN s.index_last[b] + n
                              ELSE t.index_last[b]]),
                      !.index_first =
                          FcnOf([b \in t.index_initialized \cup s.index_initialized |->
                              IF b \notin t.index_initialized
                              THEN s.index_first[b] + n
                              ELSE t.index_first[b]]),
                      !.index_initialized = @ \cup s.index_initialized]]

\* an overlap that leaves the concatenation as it is
xm_table_overlap_nocompress(H, a, b, flags, ascending) ==
    IF a.a.nelts + b.a.nelts = 0 THEN [H |-> H, t |-> a, fault |-> FALSE]
    ELSE LET c == xm_table_cat(H, a, b, ascending)
         IN [H |-> c.H, t |-> c.t, fault |-> FALSE]

xm_table_overlap(H, a, b, flags, ascending) ==
    IF a.a.nelts + b.a.nelts = 0 THEN [H |-> H, t |-> a, fault |-> FALSE]
    ELSE LET c == xm_table_cat(H, a, b, ascending)
         IN xm_table_compress(c.H, c.t, flags)

\* (*comp)(rec, key, val): the callback is any function with a state of its
\* own in rec; rets lists what its first calls return, later calls return 1
comp(rets, k) == IF k <= Len(rets) THEN rets[k] ELSE TRUE

\* one for loop of xm_table_vdo from position i to position end: calls is
\* the positions the callback has been given so far; whole says that the
\* loop is the one over the entire table
RECURSIVE vdo_scan(_, _, _, _, _, _, _, _, _)
vdo_scan(cells, i, end, whole, checksum, argp, rets, calls, rv) ==
    IF ~rv \/ i > end THEN [calls |-> calls, rv |-> rv]
    ELSE LET e == Elt(cells, i)
             hit == IF whole THEN e.key # NULL
                    ELSE /\ e.key # NULL
                         /\ checksum = e.key_checksum
                         /\ strcasecmp(e.key, argp) = 0
         IN IF hit
            THEN vdo_scan(cells, i + 1, end, whole, checksum, argp, rets,
                          Append(calls, i), comp(rets, Len(calls) + 1))
            ELSE vdo_scan(cells, i + 1, end, whole, checksum, argp, rets, calls, rv)

\* the do-while of xm_table_vdo over the keys args[k..], none of them NULL
RECURSIVE vdo_keys(_, _, _, _, _, _, _)
vdo_keys(cells, t, args, k, rets, calls, vdorv) ==
    IF k > Len(args) THEN [calls |-> calls, ret |-> vdorv]
    ELSE LET argp == args[k]
             hash == TABLE_HASH(argp)
             r == IF hash \in t.index_initialized
                  THEN vdo_scan(cells, t.index_first[hash], t.index_last[hash], FALSE,
                                COMPUTE_KEY_CHECKSUM(argp), argp, rets, calls, TRUE)
                  ELSE [calls |-> calls, rv |-> TRUE]
         IN vdo_keys(cells, t, args, k + 1, rets, r.calls, vdorv /\ r.rv)

\* args is the va_list without its closing NULL
xm_table_vdo(H, t, args, rets) ==
    IF args = << >>
    THEN LET r == vdo_scan(H[t.a.elts], 0, t.a.nelts - 1, TRUE, << >>, NULL,
                           rets, << >>, TRUE)
         IN [calls |-> r.calls, ret |-> r.rv]
    ELSE vdo_keys(H[t.a.elts], t, args, 1, rets, << >>, TRUE)

\* The state of xm_table_getm (table_getm_t): first is the first value seen,
\* NULL for none; merged is the array of the values, << >> while it is the
\* null pointer and <<header>> once it is made.
\* table_getm_do(state, key, val) on heap H; it always returns 1
table_getm_do(H, state, val) ==
    IF state.first = NULL
    THEN [H |-> H, state |-> [state EXCEPT !.first = val]]
    ELSE LET m0 == IF state.merged = << >>
                   THEN LET m == xm_array_make(H, state.p, 10, PtrSize)
                            q == xm_array_push(m.H, m.a)
                        IN [H |-> WriteElt(q.H, q.a, q.a.nelts - 1, state.first),
                            a |-> q.a]
                   ELSE [H |-> H, a |-> state.merged[1]]
             q1 == xm_array_push(m0.H, m0.a)
         IN [H |-> WriteElt(q1.H, q1.a, q1.a.nelts - 1, val),
             state |-> [state EXCEPT !.merged = <<q1.a>>]]

\* the calls xm_table_do makes of table_getm_do, one per position of calls
RECURSIVE getm_calls(_, _, _, _, _)
getm_calls(H, cells, state, calls, k) ==
    IF k > Len(calls) THEN [H |-> H, state |-> state]
    ELSE LET r == table_getm_do(H, state, Elt(cells, calls[k]).val)
         IN getm_calls(r.H, cells, r.state, calls, k + 1)

\* xm_table_do(table_getm_do, &state, t, key, NULL), then the value built;
\* ret is the string returned, NULL for none
xm_table_getm(H, p, t, key) ==
    LET v == xm_table_vdo(H, t, <<key>>, << >>)
        r == getm_calls(H, H[t.a.elts], [p |-> p, first |-> NULL, merged |-> << >>],
                        v.calls, 1)
    IN [H |-> r.H,
        ret |-> IF r.state.first = NULL THEN NULL
                ELSE IF r.state.merged = << >> THEN r.state.first
                ELSE xm_array_pstrcat(r.H, r.state.merged[1], 44)]

----------------------------------------------------------------------------
(* The array machine: two array variables of a caller, x and y *)

ArrNames == {"x", "y"}
\* the nelts arguments tried with xm_array_make
MakeSizes == {-1, 0, 1, 2, 4}
\* what a caller stores into the slot a push returns
EltVals == {<<97>>, <<98>>}

\* the agent and the arenas of a machine that has no pool cache
NoAgent == [cache_list |-> << >>, max_cache_n |-> 0, cur_cache_n |-> 0,
            pool_size |-> 0, pre_alloc_n |-> 0]

NoLast == [op |-> "init", a |-> "-", b |-> "-", key |-> << >>, val |-> << >>,
           n |-> 0, ret |-> << >>]

\* the active elements of header a
ArrElts(H, a) == SeqOf([i \in 1..a.nelts |-> H[a.elts][i]])

\* the number of cells of block b that some header counts among its elements
LiveElts(A, b) ==
    LET ns == {A[h].nelts : h \in {g \in DOMAIN A : A[g].elts = b}}
    IN IF ns = {} THEN 0 ELSE CHOOSE k \in ns : \A j \in ns : j <= k

\* no array function reads a cell past nelts before writing it: forget the
\* cells past the elements of every header that uses the block
ForgetSlots(H, A) ==
    FcnOf([b \in DOMAIN H |->
        LET live == LiveElts(A, b)
        IN SeqOf([i \in 1..Len(H[b]) |-> IF i <= live THEN H[b][i] ELSE Uninit])])

InitArray ==
    /\ \E n \in 0..1 :
         LET m1 == xm_array_make(<< >>, 1, n, PtrSize)
             m2 == xm_array_make(m1.H, 1, 1, PtrSize)
         IN /\ heap = m2.H
            /\ arr = [h \in ArrNames |-> IF h = "x" THEN m1.a ELSE m2.a]
    /\ npush = [h \in ArrNames |-> 0]
    /\ tab = << >>
    /\ fault = FALSE
    /\ shared = 0
    /\ mpa = NoAgent
    /\ pools = << >>
    /\ last = NoLast

\* the common tail of an array step: header h becomes r.a on heap r.H;
\* pushes is the number of pushes made on h since xm_array_make with nothing
\* else done to h in between, -1 when something else was done
ArrStep(h, r, pushes, l) ==
    LET A1 == [arr EXCEPT ![h] = r.a]
        A2 == Renumber(A1, tab)
    IN /\ arr' = A2
       /\ heap' = ForgetSlots(Collect(r.H, A1, tab), A2)
       /\ npush' = [npush EXCEPT ![h] = pushes]
       /\ last' = l
       /\ UNCHANGED <<tab, fault, shared, mpa, pools>>

ArrMake(h, n) ==
    ArrStep(h, xm_array_make(heap, 1, n, PtrSize), 0,
            [NoLast EXCEPT !.op = "make", !.a = h, !.n = n])

\* xm_array_push and the caller's store into the slot returned
ArrPush(h, v) ==
    /\ arr[h].nelts < MaxArr
    /\ LET r == xm_array_push(heap, arr[h])
       IN ArrStep(h, [H |-> WriteElt(r.H, r.a, r.a.nelts - 1, v), a |-> r.a],
                  IF npush[h] >= 0 THEN npush[h] + 1 ELSE -1,
                  [NoLast EXCEPT !.op = "push", !.a = h, !.val = v])

ArrPop(h) ==
    LET r == xm_array_pop(heap, arr[h])
    IN ArrStep(h, r, -1, [NoLast EXCEPT !.op = "pop", !.a = h, !.n = r.ret])

\* xm_array_pop(NULL)
ArrPopNull ==
    LET r == xm_array_pop(heap, NullArray)
    IN /\ heap' = r.H
       /\ last' = [NoLast EXCEPT !.op = "pop", !.a = "NULL", !.n = r.ret]
       /\ UNCHANGED <<arr, npush, tab, fault, shared, mpa, pools>>

ArrClear(h) ==
    ArrStep(h, xm_array_clear(heap, arr[h]), -1,
            [NoLast EXCEPT !.op = "clear", !.a = h])

\* xm_array_cat(d, s)
ArrCat(d, s) ==
    /\ d # s
    /\ arr[d].nelts + arr[s].nelts <= MaxArr
    /\ \E ascending \in BOOLEAN :
          ArrStep(d, xm_array_cat(heap, arr[d], arr[s], ascending), -1,
                  [NoLast EXCEPT !.op = "cat", !.a = d, !.b = s])

\* d = xm_array_copy(p, s)
ArrCopy(d, s) ==
    /\ d # s
    /\ ArrStep(d, xm_array_copy(heap, 1, arr[s]), -1,
               [NoLast EXCEPT !.op = "copy", !.a = d, !.b = s])

\* d = xm_array_copy_hdr(p, s)
ArrCopyHdr(d, s) ==
    /\ d # s
    /\ ArrStep(d, xm_array_copy_hdr(heap, 1, arr[s]), -1,
               [NoLast EXCEPT !.op = "copy_hdr", !.a = d, !.b = s])

\* d = xm_array_append(p, s, d)
ArrAppend(d, s) ==
    /\ d # s
    /\ arr[d].nelts + arr[s].nelts <= MaxArr
    /\ ArrStep(d, xm_array_append(heap, 1, arr[s], arr[d]), -1,
               [NoLast EXCEPT !.op = "append", !.a = d, !.b = s])

NextArray ==
    \/ \E h \in ArrNames, n \in MakeSizes : ArrMake(h, n)
    \/ \E h \in ArrNames, v \in EltVals : ArrPush(h, v)
    \/ \E h \in ArrNames : ArrPop(h)
    \/ ArrPopNull
    \/ \E h \in ArrNames : ArrClear(h)
    \/ \E d \in ArrNames, s \in ArrNames : ArrCat(d, s)
    \/ \E d \in ArrNames, s \in ArrNames : ArrCopy(d, s)
    \/ \E d \in ArrNames, s \in ArrNames : ArrCopyHdr(d, s)
    \/ \E d \in ArrNames, s \in ArrNames : ArrAppend(d, s)

SpecArray == InitArray /\ [][NextArray]_vars

----------------------------------------------------------------------------
(* xm_array_pstrcat as a function of an array of strings: the array x is   *)
(* any array that xm_array_make and pushes of strings or NULL produce.     *)

StrVals == {NULL, <<97>>, <<98>>}
StrSeqs == UNION {[1..k -> StrVals] : k \in 0..MaxStrs}
\* the separators tried: none (NUL), ',' and ';'
Seps == {0, 44, 59}

RECURSIVE PushAll(_, _)
PushAll(r, seq) ==
    IF seq = << >> THEN r
    ELSE LET q == xm_array_push(r.H, r.a)
         IN PushAll([H |-> WriteElt(q.H, q.a, q.a.nelts - 1, Head(seq)), a |-> q.a],
                    Tail(seq))

InitPstrcat ==
    /\ \E n \in MakeSizes, seq \in StrSeqs :
         LET r == PushAll(xm_array_make(<< >>, 1, n, PtrSize), seq)
             A == [h \in {"x"} |-> r.a]
         IN /\ arr = Renumber(A, << >>)
            /\ heap = Collect(r.H, A, << >>)
    /\ npush = [h \in {"x"} |-> -1]
    /\ tab = << >>
    /\ fault = FALSE
    /\ shared = 0
    /\ mpa = NoAgent
    /\ pools = << >>
    /\ last = NoLast

\* xm_array_pstrcat(p, x, sep): the string returned is kept in last.ret
ArrPstrcat(sep) ==
    /\ last' = [NoLast EXCEPT !.op = "pstrcat", !.a = "x", !.n = sep,
                              !.ret = xm_array_pstrcat(heap, arr["x"], sep)]
    /\ UNCHANGED <<heap, arr, npush, tab, fault, shared, mpa, pools>>

NextPstrcat == \E sep \in Seps : ArrPstrcat(sep)

SpecPstrcat == InitPstrcat /\ [][NextPstrcat]_vars

----------------------------------------------------------------------------
(* The pool cache of xm_mpool_agent.h.  An arena is a number; pools maps   *)
(* it to where it is (held by a caller, cached, destroyed) and to whether  *)
(* it holds allocations.  cache_list is the list from its head.            *)

\* the defaults xm_mpool_agent_init puts in place of a zero argument
DefaultMaxCache == 100000
DefaultPoolSize == 4096
DefaultPreAlloc == 1000

\* the arguments tried with xm_mpool_agent_init
MaxCacheNs == {1, 2}
PoolSizes  == {0, 512}
PreAllocNs == {1, 2, 5}
\* xm_mpool_agent_alloc creates at most this many arenas beyond the
\* pre-allocated ones
MaxFresh == 2

\* list_add: insert right behind the head
list_add(node, list) == <<node>> \o list
\* list_first_entry: the entry right behind the head
list_first_entry(list) == Head(list)
\* list_del of node
list_del(node, list) == SelectSeq(list, LAMBDA x : x # node)
list_empty(list) == list = << >>

\* xm_pool_create: a new arena, numbered behind the ones created so far
xm_pool_create(P, size) ==
    FcnOf([x \in (DOMAIN P) \cup {Cardinality(DOMAIN P) + 1} |->
        IF x \in DOMAIN P THEN P[x] ELSE [st |-> "held", used |-> FALSE, size |-> size]])

\* xm_pool_reset: every allocation of the arena is released
xm_pool_reset(P, mp) == [P EXCEPT ![mp].used = FALSE]
xm_pool_destroy(P, mp) == [P EXCEPT ![mp].st = "destroyed", ![mp].used = FALSE]

\* a loop body that counts the arena it tries to create, created or not
prealloc_step_countall(m, P, i, ok) ==
    IF i \in ok
    THEN LET P1 == xm_pool_create(P, m.pool_size)
             mp == Cardinality(DOMAIN P) + 1
         IN [m |-> [m EXCEPT !.cur_cache_n = m.cur_cache_n + 1,
                             !.cache_list = list_add(mp, m.cache_list)],
             P |-> [P1 EXCEPT ![mp].st = "cached"]]
    ELSE [m |-> [m EXCEPT !.cur_cache_n = m.cur_cache_n + 1], P |-> P]

\* iteration i of the loop of xm_mpool_agent_init; ok is the set of
\* iterations in which xm_pool_create succeeds
prealloc_step(m, P, i, ok) ==
    IF i \in ok
    THEN LET P1 == xm_pool_create(P, m.pool_size)
             mp == Cardinality(DOMAIN P) + 1
         IN [m |-> [m EXCEPT !.cur_cache_n = m.cur_cache_n + 1,
                             !.cache_list = list_add(mp, m.cache_list)],
             P |-> [P1 EXCEPT ![mp].st = "cached"]]
    ELSE [m |-> m, P |-> P]

\* the iterations lo .. hi - 1 of the loop, one after the other: the first
\* half of them, then, the loop test i < mpa->pre_alloc_n read from what
\* they left, the second half
RECURSIVE prealloc_range(_, _, _, _, _)
prealloc_range(m, P, lo, hi, ok) ==
    IF lo >= hi THEN [m |-> m, P |-> P]
    ELSE IF hi = lo + 1 THEN prealloc_step(m, P, lo, ok)
    ELSE LET mid == (lo + hi) \div 2
             r   == prealloc_range(m, P, lo, mid, ok)
         IN IF mid < r.m.pre_alloc_n THEN prealloc_range(r.m, r.P, mid, hi, ok)
            ELSE r

\* for (i = 0; i < mpa->pre_alloc_n; i++), from iteration i on
agent_prealloc(m, P, i, ok) == prealloc_range(m, P, i, m.pre_alloc_n, ok)

\* ret is the int returned: the function ends with return 0 on every path
xm_mpool_agent_init(max_cache_n, pool_size, pre_alloc_n, ok) ==
    LET r == agent_prealloc(
                 [cache_list  |-> << >>,
                  max_cache_n |-> IF max_cache_n = 0 THEN DefaultMaxCache ELSE max_cache_n,
                  cur_cache_n |-> 0,
                  pool_size   |-> IF pool_size = 0 THEN DefaultPoolSize ELSE pool_size,
                  pre_alloc_n |-> IF pre_alloc_n = 0 THEN DefaultPreAlloc ELSE pre_alloc_n],
                 << >>, 0, ok)
    IN [m |-> r.m, P |-> r.P, ret |-> 0]

\* an acquire that takes an arena off the list and leaves the count as it is
xm_mpool_agent_alloc_nocount(m, P, created) ==
    IF ~list_empty(m.cache_list)
    THEN LET mp == list_first_entry(m.cache_list)
         IN [m |-> [m EXCEPT !.cache_list = list_del(mp, m.cache_list)],
             P |-> [P EXCEPT ![mp].st = "held"], ret |-> mp]
    ELSE IF created
         THEN [m |-> m, P |-> xm_pool_create(P, m.pool_size),
               ret |-> Cardinality(DOMAIN P) + 1]
         ELSE [m |-> m, P |-> P, ret |-> 0]

\* an acquire that hands out the first arena of the list and leaves it linked
xm_mpool_agent_alloc_nodel(m, P, created) ==
    IF ~list_empty(m.cache_list)
    THEN LET mp == list_first_entry(m.cache_list)
         IN [m |-> [m EXCEPT !.cur_cache_n = m.cur_cache_n - 1],
             P |-> [P EXCEPT ![mp].st = "held"], ret |-> mp]
    ELSE IF created
         THEN [m |-> m, P |-> xm_pool_create(P, m.pool_size),
               ret |-> Cardinality(DOMAIN P) + 1]
         ELSE [m |-> m, P |-> P, ret |-> 0]

\* an acquire that takes the entry at the far end of the list
xm_mpool_agent_alloc_oldest(m, P, created) ==
    IF ~list_empty(m.cache_list)
    THEN LET mp == m.cache_list[Len(m.cache_list)]
         IN [m |-> [m EXCEPT !.cache_list = list_del(mp, m.cache_list),
                             !.cur_cache_n = m.cur_cache_n - 1],
             P |-> [P EXCEPT ![mp].st = "held"], ret |-> mp]
    ELSE IF created
         THEN [m |-> m, P |-> xm_pool_create(P, m.pool_size),
               ret |-> Cardinality(DOMAIN P) + 1]
         ELSE [m |-> m, P |-> P, ret |-> 0]

\* created tells whether xm_pool_create succeeds when the cache is empty;
\* ret is the arena returned, 0 for NULL
xm_mpool_agent_alloc(m, P, created) ==
    IF ~list_empty(m.cache_list)
    THEN LET mp == list_first_entry(m.cache_list)
         IN [m |-> [m EXCEPT !.cache_list = list_del(mp, m.cache_list),
                             !.cur_cache_n = m.cur_cache_n - 1],
             P |-> [P EXCEPT ![mp].st = "held"], ret |-> mp]
    ELSE IF created
         THEN [m |-> m, P |-> xm_pool_create(P, m.pool_size),
               ret |-> Cardinality(DOMAIN P) + 1]
         ELSE [m |-> m, P |-> P, ret |-> 0]

\* a release that caches the arena as the caller left it
xm_mpool_agent_free_noreset(m, P, mp) ==
    IF m.cur_cache_n < m.max_cache_n
    THEN [m |-> [m EXCEPT !.cache_list = list_add(mp, m.cache_list),
                          !.cur_cache_n = m.cur_cache_n + 1],
          P |-> [P EXCEPT ![mp].st = "cached"]]
    ELSE [m |-> m, P |-> xm_pool_destroy(P, mp)]

\* a release that still caches when the cache holds max_cache_n arenas
xm_mpool_agent_free_atmax(m, P, mp) ==
    IF m.cur_cache_n <= m.max_cache_n
    THEN [m |-> [m EXCEPT !.cache_list = list_add(mp, m.cache_list),
                          !.cur_cache_n = m.cur_cache_n + 1],
          P |-> [xm_pool_reset(P, mp) EXCEPT ![mp].st = "cached"]]
    ELSE [m |-> m, P |-> xm_pool_destroy(P, mp)]

xm_mpool_agent_free(m, P, mp) ==
    IF m.cur_cache_n < m.max_cache_n
    THEN [m |-> [m EXCEPT !.cache_list = list_add(mp, m.cache_list),
                          !.cur_cache_n = m.cur_cache_n + 1],
          P |-> [xm_pool_reset(P, mp) EXCEPT ![mp].st = "cached"]]
    ELSE [m |-> m, P |-> xm_pool_destroy(P, mp)]

InitPool ==
    /\ \E mx \in MaxCacheNs, sz \in PoolSizes, pre \in PreAllocNs :
         \E ok \in SUBSET (0..(pre - 1)) :
            LET r == xm_mpool_agent_init(mx, sz, pre, ok)
            IN mpa = r.m /\ pools = r.P
    /\ heap = << >>
    /\ arr = << >>
    /\ npush = << >>
    /\ tab = << >>
    /\ fault = FALSE
    /\ shared = 0
    /\ last = NoLast

PoolAlloc(created) ==
    /\ list_empty(mpa.cache_list) /\ created
         => Cardinality(DOMAIN pools) < mpa.pre_alloc_n + MaxFresh
    /\ LET r == xm_mpool_agent_alloc(mpa, pools, created)
       IN /\ mpa' = r.m
          /\ pools' = r.P
          /\ last' = [NoLast EXCEPT !.op = "alloc", !.n = r.ret]
    /\ UNCHANGED <<heap, arr, npush, tab, fault, shared>>

\* the caller allocates from an arena it holds
PoolUse(mp) ==
    /\ pools[mp].st = "held"
    /\ ~pools[mp].used
    /\ pools' = [pools EXCEPT ![mp].used = TRUE]
    /\ last' = [NoLast EXCEPT !.op = "use", !.n = mp]
    /\ UNCHANGED <<heap, arr, npush, tab, fault, shared, mpa>>

PoolFree(mp) ==
    /\ pools[mp].st = "held"
    /\ LET r == xm_mpool_agent_free(mpa, pools, mp)
       IN /\ mpa' = r.m
          /\ pools' = r.P
          \* last.ret tells whether the arena held allocations when released
          /\ last' = [NoLast EXCEPT !.op = "free", !.n = mp,
                                    !.ret = IF pools[mp].used THEN <<1>> ELSE <<0>>]
    /\ UNCHANGED <<heap, arr, npush, tab, fault, shared>>

NextPool ==
    \/ \E created \in BOOLEAN : PoolAlloc(created)
    \/ \E mp \in DOMAIN pools : PoolUse(mp)
    \/ \E mp \in DOMAIN pools : PoolFree(mp)

SpecPool == InitPool /\ [][NextPool]_vars

\* xm_mpool_agent_init on its own: the agent structure of a caller before
\* and after the call, for arguments that are zero or not and for arena
\* creations that fail or not.

\* pre_alloc_n is tried from 0 (the default) to this
MaxPreAlloc == 4
InitMaxCacheNs == {0, 1, 2}
InitPoolSizes == {0, 512}

\* the sets of loop iterations in which xm_pool_create may succeed: every
\* set for a pre_alloc_n given, and for the default number of iterations
\* all of them, none, every second one and the first one alone
OkSets(pre_alloc_n) ==
    IF pre_alloc_n # 0 THEN SUBSET (0..(pre_alloc_n - 1))
    ELSE {0..(DefaultPreAlloc - 1), {}, {0},
          {i \in 0..(DefaultPreAlloc - 1) : i % 2 = 1}}

\* the structure is not yet initialized: nothing reads it before the call
InitAgent ==
    /\ mpa = NoAgent
    /\ pools = << >>
    /\ heap = << >>
    /\ arr = << >>
    /\ npush = << >>
    /\ tab = << >>
    /\ fault = FALSE
    /\ shared = 0
    /\ last = NoLast

\* xm_mpool_agent_init(&mpa, max_cache_n, pool_size, pre_alloc_n): last
\* keeps the arguments, the number of creations that succeeded and the
\* value returned
AgentInit(max_cache_n, pool_size, pre_alloc_n, ok) ==
    /\ last.op = "init"
    /\ LET r == xm_mpool_agent_init(max_cache_n, pool_size, pre_alloc_n, ok)
       IN /\ mpa' = r.m
          /\ pools' = r.P
          /\ last' = [NoLast EXCEPT !.op = "agent_init",
                                    !.key = <<max_cache_n, pool_size, pre_alloc_n>>,
                                    !.n = Cardinality(ok),
                                    !.ret = <<r.ret>>]
    /\ UNCHANGED <<heap, arr, npush, tab, fault, shared>>

NextAgent ==
    \E mx \in InitMaxCacheNs, sz \in InitPoolSizes, pre \in 0..MaxPreAlloc :
        \E ok \in OkSets(pre) : AgentInit(mx, sz, pre, ok)

SpecAgent == InitAgent /\ [][NextAgent]_vars

----------------------------------------------------------------------------
(* table_mergesort as a function of an array of references to entries: the *)
(* entries are the cells of one block, the references their positions, in  *)
(* table order as xm_table_compress lists them or in the opposite order.   *)

\* "a", "A", "b" and "ab"
SortKeys == {<<97>>, <<65>>, <<98>>, <<97, 98>>}
MaxSortLen == 6
SortInputs == UNION {[1..k -> SortKeys] : k \in 1..MaxSortLen}

\* the references to n entries in table order, and from the last to the first
InOrder(n) == SeqOf([i \in 1..n |-> i - 1])
Backwards(n) == SeqOf([i \in 1..n |-> n - i])

InitSort ==
    /\ \E ks \in SortInputs :
          /\ heap = FcnOf([b \in {0} |->
                        SeqOf([i \in 1..Len(ks) |->
                            [key |-> ks[i], val |-> <<49>>,
                             key_checksum |-> COMPUTE_KEY_CHECKSUM(ks[i])]])])
          /\ \E values \in {InOrder(Len(ks)), Backwards(Len(ks))} :
                last = [NoLast EXCEPT !.val = values]
    /\ arr = << >>
    /\ npush = << >>
    /\ tab = << >>
    /\ fault = FALSE
    /\ shared = 0
    /\ mpa = NoAgent
    /\ pools = << >>

\* sorted = table_mergesort(pool, values, n); last.val keeps the references
\* as they were given
Mergesort ==
    /\ last.op = "init"
    /\ LET r == table_mergesort(heap[0], last.val, Len(last.val))
       IN /\ fault' = r.fault
          /\ last' = [last EXCEPT !.op = "mergesort", !.ret = r.values]
    /\ UNCHANGED <<heap, arr, npush, tab, shared, mpa, pools>>

NextSort == Mergesort

SpecSort == InitSort /\ [][NextSort]_vars

----------------------------------------------------------------------------
(* The rings of lib/xm_ring.h.  A node is a ring head (its sentinel) or an  *)
(* element; the heap maps a node to its link, the pair of next and prev.    *)
(* The macros evaluate an argument each time its name occurs in the body:  *)
(* an argument is kept as the expression the caller wrote and evaluated on *)
(* the links of the moment.                                                 *)

\* the two ring heads of a caller
h1 == "h1"
h2 == "h2"
RingHeads == {h1, h2}
\* the elements of a caller
MaxRingElems == 3
ElemNames == <<"e1", "e2", "e3", "e4", "e5">>
RingElems == {ElemNames[i] : i \in 1..MaxRingElems}
\* what a link field holds before anything is stored in it
Dangling == "?"

\* an argument that is a pointer variable, XM_RING_FIRST(hp), XM_RING_LAST(hp)
PtrArg(p) == [kind |-> "ptr", p |-> p]
FirstArg(hp) == [kind |-> "first", p |-> hp]
LastArg(hp) == [kind |-> "last", p |-> hp]

XM_RING_SENTINEL(hp) == hp
XM_RING_FIRST(L, hp) == L[hp].next
XM_RING_LAST(L, hp) == L[hp].prev
XM_RING_NEXT(L, ep) == L[ep].next
XM_RING_PREV(L, ep) == L[ep].prev

\* the value of an argument on the links L
ArgVal(L, x) ==
    IF x.kind = "ptr" THEN x.p
    ELSE IF x.kind = "first" THEN XM_RING_FIRST(L, x.p)
    ELSE XM_RING_LAST(L, x.p)

XM_RING_INIT(L, hp) ==
    LET L1 == [L EXCEPT ![hp].next = XM_RING_SENTINEL(hp)]
    IN [L1 EXCEPT ![hp].prev = XM_RING_SENTINEL(hp)]

XM_RING_EMPTY(L, hp) == XM_RING_FIRST(L, hp) = XM_RING_SENTINEL(hp)

XM_RING_SPLICE_BEFORE(L, lep, ep1, epN) ==
    LET L1 == [L  EXCEPT ![ArgVal(L, epN)].next = ArgVal(L, lep)]
        L2 == [L1 EXCEPT ![ArgVal(L1, ep1)].prev = XM_RING_PREV(L1, ArgVal(L1, lep))]
        L3 == [L2 EXCEPT ![XM_RING_PREV(L2, ArgVal(L2, lep))].next = ArgVal(L2, ep1)]
    IN [L3 EXCEPT ![ArgVal(L3, lep)].prev = ArgVal(L3, epN)]

XM_RING_SPLICE_AFTER(L, lep, ep1, epN) ==
    LET L1 == [L  EXCEPT ![ArgVal(L, ep1)].prev = ArgVal(L, lep)]
        L2 == [L1 EXCEPT ![ArgVal(L1, epN)].next = XM_RING_NEXT(L1, ArgVal(L1, lep))]
        L3 == [L2 EXCEPT ![XM_RING_NEXT(L2, ArgVal(L2, lep))].prev = ArgVal(L2, epN)]
    IN [L3 EXCEPT ![ArgVal(L3, lep)].next = ArgVal(L3, ep1)]

XM_RING_INSERT_BEFORE(L, lep, nep) == XM_RING_SPLICE_BEFORE(L, lep, nep, nep)
XM_RING_INSERT_AFTER(L, lep, nep) == XM_RING_SPLICE_AFTER(L, lep, nep, nep)

XM_RING_SPLICE_HEAD(L, hp, ep1, epN) ==
    XM_RING_SPLICE_AFTER(L, PtrArg(XM_RING_SENTINEL(hp)), ep1, epN)
XM_RING_SPLICE_TAIL(L, hp, ep1, epN) ==
    XM_RING_SPLICE_BEFORE(L, PtrArg(XM_RING_SENTINEL(hp)), ep1, epN)

XM_RING_INSERT_HEAD(L, hp, nep) == XM_RING_SPLICE_HEAD(L, hp, nep, nep)
XM_RING_INSERT_TAIL(L, hp, nep) == XM_RING_SPLICE_TAIL(L, hp, nep, nep)

\* a concatenation that leaves the head of the second ring as it is
XM_RING_CONCAT_noinit(L, a, b) ==
    IF ~XM_RING_EMPTY(L, b)
    THEN XM_RING_SPLICE_BEFORE(L, PtrArg(XM_RING_SENTINEL(a)), FirstArg(b), LastArg(b))
    ELSE L

XM_RING_CONCAT(L, a, b) ==
    IF ~XM_RING_EMPTY(L, b)
    THEN XM_RING_INIT(
             XM_RING_SPLICE_BEFORE(L, PtrArg(XM_RING_SENTINEL(a)), FirstArg(b), LastArg(b)),
             b)
    ELSE L

XM_RING_PREPEND(L, a, b) ==
    IF ~XM_RING_EMPTY(L, b)
    THEN XM_RING_INIT(
             XM_RING_SPLICE_AFTER(L, PtrArg(XM_RING_SENTINEL(a)), FirstArg(b), LastArg(b)),
             b)
    ELSE L

\* an unsplice that stores the forward link alone
XM_RING_UNSPLICE_forward(L, ep1, epN) ==
    [L EXCEPT ![XM_RING_PREV(L, ArgVal(L, ep1))].next = XM_RING_NEXT(L, ArgVal(L, epN))]

XM_RING_UNSPLICE(L, ep1, epN) ==
    LET L1 == [L EXCEPT ![XM_RING_PREV(L, ArgVal(L, ep1))].next =
                            XM_RING_NEXT(L, ArgVal(L, epN))]
    IN [L1 EXCEPT ![XM_RING_NEXT(L1, ArgVal(L1, epN))].prev =
                            XM_RING_PREV(L1, ArgVal(L1, ep1))]

XM_RING_REMOVE(L, ep) == XM_RING_UNSPLICE(L, ep, ep)

\* XM_RING_FOREACH: the elements from XM_RING_FIRST on, following next until
\* the sentinel; a walk that has not come back after as many steps as there
\* are nodes ends with Dangling
RECURSIVE ring_foreach(_, _, _, _)
ring_foreach(L, hp, ep, fuel) ==
    IF ep = XM_RING_SENTINEL(hp) THEN << >>
    ELSE IF fuel = 0 \/ ep \notin DOMAIN L THEN <<Dangling>>
    ELSE <<ep>> \o ring_foreach(L, hp, XM_RING_NEXT(L, ep), fuel - 1)

XM_RING_FOREACH(L, hp) ==
    ring_foreach(L, hp, XM_RING_FIRST(L, hp), Cardinality(DOMAIN L))

\* the elements of the sequence w
Range(w) == {w[i] : i \in 1..Len(w)}
\* the elements on one of the caller's rings
OnRing(L) == UNION {Range(XM_RING_FOREACH(L, hp)) : hp \in RingHeads}

\* XM_RING_INIT(&h1, ...); XM_RING_INIT(&h2, ...); the elements are allocated
InitRing ==
    /\ heap = XM_RING_INIT(XM_RING_INIT(
                  FcnOf([n \in RingHeads \cup RingElems |->
                            [next |-> Dangling, prev |-> Dangling]]), h1), h2)
    /\ arr = << >>
    /\ npush = << >>
    /\ tab = << >>
    /\ fault = FALSE
    /\ shared = 0
    /\ mpa = NoAgent
    /\ pools = << >>
    /\ last = NoLast

\* an insertion stores both links of the element it is given before it
\* reads them, and nothing else reads the links of an element that is on no
\* ring: forget them
ForgetLinks(L) ==
    FcnOf([n \in DOMAIN L |->
        IF n \in RingHeads \cup OnRing(L) THEN L[n]
        ELSE [next |-> Dangling, prev |-> Dangling]])

\* a ring step: the links become L; last names the macro, the head or
\* element it was given (n) and the element put in or taken out (ret)
RingStep(L, op, at, ep) ==
    /\ heap' = ForgetLinks(L)
    /\ last' = [NoLast EXCEPT !.op = op, !.n = at, !.ret = <<ep>>]
    /\ UNCHANGED <<arr, npush, tab, fault, shared, mpa, pools>>

\* the caller inserts an element that is on no ring
RingInsertHead(hp, nep) ==
    /\ nep \notin OnRing(heap)
    /\ RingStep(XM_RING_INSERT_HEAD(heap, hp, PtrArg(nep)), "INSERT_HEAD", hp, nep)

RingInsertTail(hp, nep) ==
    /\ nep \notin OnRing(heap)
    /\ RingStep(XM_RING_INSERT_TAIL(heap, hp, PtrArg(nep)), "INSERT_TAIL", hp, nep)

\* lep is an element of a ring
RingInsertBefore(lep, nep) ==
    /\ lep \in OnRing(heap)
    /\ nep \notin OnRing(heap)
    /\ RingStep(XM_RING_INSERT_BEFORE(heap, PtrArg(lep), PtrArg(nep)),
                "INSERT_BEFORE", lep, nep)

RingInsertAfter(lep, nep) ==
    /\ lep \in OnRing(heap)
    /\ nep \notin OnRing(heap)
    /\ RingStep(XM_RING_INSERT_AFTER(heap, PtrArg(lep), PtrArg(nep)),
                "INSERT_AFTER", lep, nep)

RingRemove(ep) ==
    /\ ep \in OnRing(heap)
    /\ RingStep(XM_RING_REMOVE(heap, PtrArg(ep)), "REMOVE", ep, ep)

RingConcat(a, b) ==
    /\ a # b
    /\ RingStep(XM_RING_CONCAT(heap, a, b), "CONCAT", a, b)

RingPrepend(a, b) ==
    /\ a # b
    /\ RingStep(XM_RING_PREPEND(heap, a, b), "PREPEND", a, b)

NextRing ==
    \/ \E hp \in RingHeads, nep \in RingElems : RingInsertHead(hp, nep)
    \/ \E hp \in RingHeads, nep \in RingElems : RingInsertTail(hp, nep)
    \/ \E lep \in RingElems, nep \in RingElems : RingInsertBefore(lep, nep)
    \/ \E lep \in RingElems, nep \in RingElems : RingInsertAfter(lep, nep)
    \/ \E ep \in RingElems : RingRemove(ep)
    \/ \E a \in RingHeads, b \in RingHeads : RingConcat(a, b)
    \/ \E a \in RingHeads, b \in RingHeads : RingPrepend(a, b)

SpecRing == InitRing /\ [][NextRing]_vars

----------------------------------------------------------------------------
(* The table machine: two table variables of a caller, t and s, in one     *)
(* pool.  The caller keeps the result of xm_table_overlay and of           *)
(* xm_table_copy in the variable that held the base / in the other         *)
(* variable.  A step that dereferences a null key sets fault and nothing   *)
(* runs after it.                                                          *)

TabNames == {"t", "s"}
Other(n) == IF n = "t" THEN "s" ELSE "t"

\* "a", "A" and "b": two spellings of one key and another key
Keys == {<<97>>, <<65>>, <<98>>}
\* "1" and "2"
Vals == {<<49>>}
TabMakeSizes == {0}
Flags == {XM_OVERLAP_TABLES_SET, XM_OVERLAP_TABLES_MERGE}

\* the entries of table t in table order
Entries(H, t) == SeqOf([i \in 1..t.a.nelts |-> H[t.a.elts][i]])

\* the table headers T with their pointers renumbered as Collect numbers them
RenumberTab(A, T) ==
    FcnOf([n \in DOMAIN T |-> [T[n] EXCEPT !.a.elts = BlockNo(A, T, T[n].a.elts)]])

\* the number of cells of block b that some table counts among its entries
LiveIn(T, b) ==
    LET ns == {T[n].a.nelts : n \in {m \in DOMAIN T : T[m].a.elts = b}}
    IN IF ns = {} THEN 0 ELSE CHOOSE k \in ns : \A j \in ns : j <= k

\* the cells past the entries of every table that uses the block are
\* never read before they are written (IndexInBounds): forget them
ForgetSlack(H, T) ==
    FcnOf([b \in DOMAIN H |->
        LET live == LiveIn(T, b)
        IN SeqOf([i \in 1..Len(H[b]) |-> IF i <= live THEN H[b][i] ELSE UninitEntry])])

\* two tables have their entries in one block
Sharing(T) == \E n, m \in DOMAIN T : n # m /\ T[n].a.elts = T[m].a.elts

RECURSIVE SumOver(_, _)
SumOver(S, f) == IF S = {} THEN 0
                 ELSE LET x == CHOOSE y \in S : TRUE
                      IN f[x] + SumOver(S \ {x}, f)

\* the bound of the exploration: entries held in storage, values' length
WithinBounds(H, T) ==
    /\ SumOver(DOMAIN H, [b \in DOMAIN H |-> LiveIn(T, b)]) <= MaxElts
    /\ \A n \in DOMAIN T : \A i \in 1..T[n].a.nelts :
          Len(H[T[n].a.elts][i].val) <= MaxValLen

InitTable ==
    /\ \E n \in TabMakeSizes :
         LET m1 == xm_table_make(<< >>, 1, n)
             m2 == xm_table_make(m1.H, 1, 0)
         IN /\ heap = m2.H
            /\ tab = [h \in TabNames |-> IF h = "t" THEN m1.t ELSE m2.t]
    /\ arr = << >>
    /\ npush = << >>
    /\ fault = FALSE
    /\ shared = 0
    /\ mpa = NoAgent
    /\ pools = << >>
    /\ last = NoLast

\* the common tail of a table step: table n becomes r.t on heap r.H, or
\* the step dies on a null key
TabStep(n, r) ==
    /\ ~fault
    /\ shared <= MaxSharedOps
    /\ IF r.fault
       THEN /\ fault' = TRUE
            /\ UNCHANGED <<heap, tab, shared>>
       ELSE LET T1 == [tab EXCEPT ![n] = r.t]
                T2 == RenumberTab(arr, T1)
            IN /\ WithinBounds(r.H, T1)
               /\ tab' = T2
               /\ heap' = ForgetSlack(Collect(r.H, arr, T1), T2)
               /\ fault' = FALSE
               /\ shared' = IF shared > 0 \/ Sharing(T2) THEN shared + 1 ELSE 0
    /\ UNCHANGED <<arr, npush, mpa, pools, last>>

TabAdd(n, key, val) == TabStep(n, xm_table_add(heap, tab[n], key, val))
TabSet(n, key, val) == TabStep(n, xm_table_set(heap, tab[n], key, val))
TabMerge(n, key, val) == TabStep(n, xm_table_merge(heap, tab[n], key, val))
TabUnset(n, key) == TabStep(n, xm_table_unset(heap, tab[n], key))
TabClear(n) == TabStep(n, xm_table_clear(heap, tab[n]))
TabCompress(n, flags) == TabStep(n, xm_table_compress(heap, tab[n], flags))
\* a = xm_table_overlap(a, b, flags) on two different tables
TabOverlap(n, flags) ==
    \E ascending \in BOOLEAN :
        TabStep(n, xm_table_overlap(heap, tab[n], tab[Other(n)], flags, ascending))
\* n = xm_table_overlay(p, overlay, n): the result replaces the base
TabOverlay(n) == TabStep(n, xm_table_overlay(heap, 1, tab[Other(n)], tab[n]))
\* n = xm_table_copy(p, other)
TabCopy(n) ==
    LET r == xm_table_copy(heap, 1, tab[Other(n)])
    IN TabStep(n, [H |-> r.H, t |-> r.t, fault |-> FALSE])

NextTable ==
    \/ \E n \in TabNames, key \in Keys, val \in Vals : TabAdd(n, key, val)
    \/ \E n \in TabNames, key \in Keys, val \in Vals : TabSet(n, key, val)
    \/ \E n \in TabNames, key \in Keys, val \in Vals : TabMerge(n, key, val)
    \/ \E n \in TabNames, key \in Keys : TabUnset(n, key)
    \/ \E n \in TabNames : TabClear(n)
    \/ \E n \in TabNames, flags \in Flags : TabCompress(n, flags)
    \/ \E n \in TabNames, flags \in Flags : TabOverlap(n, flags)
    \/ \E n \in TabNames : TabOverlay(n)
    \/ \E n \in TabNames : TabCopy(n)

SpecTable == InitTable /\ [][NextTable]_vars

----------------------------------------------------------------------------
(* The comparison of keys: a table that holds one entry, with key k1, is   *)
(* asked for key k2.                                                        *)

\* the bytes of the keys: a letter in its two cases and a byte from 0x80 on
KeyBytes == {65, 97, 225}
MaxKeyLen == 5
KeyStrings == UNION {[1..k -> KeyBytes] : k \in 0..MaxKeyLen}

\* t = xm_table_make(p, 1); xm_table_add(t, k1, "1")
InitKeys ==
    /\ \E k1 \in KeyStrings :
          LET m == xm_table_make(<< >>, 1, 1)
              a == xm_table_add(m.H, m.t, SeqOf(k1), <<49>>)
          IN heap = a.H /\ tab = [n \in {"t"} |-> a.t]
    /\ arr = << >>
    /\ npush = << >>
    /\ fault = FALSE
    /\ shared = 0
    /\ mpa = NoAgent
    /\ pools = << >>
    /\ last = NoLast

\* xm_table_get(t, k2): last.ret is the value returned
KeyLookup(k2) ==
    /\ last.op = "init"
    /\ last' = [NoLast EXCEPT !.op = "get", !.key = k2,
                              !.ret = xm_table_get(heap, tab["t"], k2).ret]
    /\ UNCHANGED <<heap, arr, npush, tab, fault, shared, mpa, pools>>

NextKeys == \E k2 \in KeyStrings : KeyLookup(SeqOf(k2))

SpecKeys == InitKeys /\ [][NextKeys]_vars

\* the table machine without xm_table_add and xm_table_overlay
NextNoAdd ==
    \/ \E n \in TabNames, key \in Keys, val \in Vals : TabSet(n, key, val)
    \/ \E n \in TabNames, key \in Keys, val \in Vals : TabMerge(n, key, val)
    \/ \E n \in TabNames, key \in Keys : TabUnset(n, key)
    \/ \E n \in TabNames : TabClear(n)
    \/ \E n \in TabNames, flags \in Flags : TabCompress(n, flags)
    \/ \E n \in TabNames, flags \in Flags : TabOverlap(n, flags)
    \/ \E n \in TabNames : TabCopy(n)

SpecNoAdd == InitTable /\ [][NextNoAdd]_vars

\* no scan reads past the entries of its table
IndexInBounds ==
    \A n \in DOMAIN tab : \A b \in tab[n].index_initialized :
        /\ 0 <= tab[n].index_first[b]
        /\ tab[n].index_last[b] < tab[n].a.nelts

----------------------------------------------------------------------------
(* Claims *)

RECURSIVE JoinWith(_, _)
JoinWith(strs, sep) ==
    IF strs = << >> THEN << >>
    ELSE IF Len(strs) = 1 THEN strs[1]
    ELSE strs[1] \o (IF sep # 0 THEN <<sep>> ELSE << >>) \o JoinWith(Tail(strs), sep)

IsNonNull(c) == c # NULL

\* C4: xm_array_pstrcat returns the non-null strings of the array in order,
\* with the separator only between two strings it emits; no elements or only
\* nulls give the empty string.
C4_PstrcatJoinsNonNull ==
    last.op = "pstrcat" =>
        last.ret = JoinWith(SelectSeq(ArrElts(heap, arr["x"]), IsNonNull), last.n)

\* the length pass one computes is the number of bytes pass two writes,
\* so the result fits the buffer allocated for it
PstrcatFitsBuffer ==
    arr["x"].nelts > 0 =>
        \A sep \in Seps :
            pstrcat_len(heap[arr["x"].elts], arr["x"].nelts, sep, 0, 0)
                = Len(xm_array_pstrcat(heap, arr["x"], sep))

\* C8: n pushes after xm_array_make leave nelts = n; a push keeps every
\* element written before it, stores into the new last slot, and changes the
\* capacity only when the array is full, to max(1, 2 * nalloc).
C8_PushKeepsElements ==
    [][ /\ \A h \in ArrNames : npush'[h] >= 0 => arr'[h].nelts = npush'[h]
        /\ last'.op = "push" =>
             LET h  == last'.a
                 a  == arr[h]
                 a2 == arr'[h]
             IN /\ a2.nelts = a.nelts + 1
                /\ \A i \in 1..a.nelts : heap'[a2.elts][i] = heap[a.elts][i]
                /\ heap'[a2.elts][a2.nelts] = last'.val
                /\ a2.nalloc = (IF a.nelts = a.nalloc
                                THEN Max(1, 2 * a.nalloc) ELSE a.nalloc)
                /\ Len(heap'[a2.elts]) >= a2.nalloc
      ]_vars

\* two pushes on an array made with capacity 1: the second one doubled it
C8_Witness ==
    \E h \in ArrNames :
        /\ last.op = "push" /\ last.a = h
        /\ npush[h] = 2 /\ arr[h].nalloc = 2
        /\ heap[arr[h].elts][1] # NULL

\* C9: a header copy shares storage and nelts with its source and has
\* nalloc = nelts; a push or a non-empty xm_array_cat on the copy right after
\* moves the copy to new storage and leaves the source's storage, nelts and
\* nalloc as they were.
C9_CopyHdrIsolation ==
    [][ /\ last'.op = "copy_hdr" =>
             /\ arr'[last'.a].elts = arr'[last'.b].elts
             /\ arr'[last'.a].nelts = arr'[last'.b].nelts
             /\ arr'[last'.a].nalloc = arr'[last'.a].nelts
        /\ ( /\ last.op = "copy_hdr"
             /\ last'.a = last.a
             /\ \/ last'.op = "push"
                \/ last'.op = "cat" /\ arr[last'.b].nelts > 0 )
           => LET c == last.a
                  s == last.b
              IN /\ heap'[arr'[s].elts] = heap[arr[s].elts]
                 /\ arr'[s].nelts = arr[s].nelts
                 /\ arr'[s].nalloc = arr[s].nalloc
                 /\ arr'[c].elts # arr'[s].elts
      ]_vars

\* a header copy of an array that has both an element and a free slot behind
\* it, with room for the push that follows
C9_Witness ==
    /\ last.op = "copy_hdr"
    /\ arr[last.b].nelts >= 1
    /\ arr[last.b].nelts < arr[last.b].nalloc
    /\ arr[last.a].nelts < MaxArr

\* C3: the pool cache never holds more arenas than max_cache_n, from
\* xm_mpool_agent_init on.
C3_CacheBounded == mpa.cur_cache_n <= mpa.max_cache_n

\* Table claims.  Lower(k) is k in lower case; the entries of a table that
\* match K are those whose key is K up to case.
Lower(k) == SeqOf([i \in DOMAIN k |-> tolower(k[i])])
KeyEq(k1, k2) == k1 # NULL /\ k2 # NULL /\ Lower(k1) = Lower(k2)
Matching(es, K) == {i \in 1..Len(es) : KeyEq(es[i].key, K)}
Least(S) == CHOOSE i \in S : \A j \in S : i <= j
Greatest(S) == CHOOSE i \in S : \A j \in S : j <= i
\* the entries of es that pass the test keep, in their order
RECURSIVE FilterSeq(_, _, _)
FilterSeq(es, keep, i) ==
    IF i > Len(es) THEN << >>
    ELSE (IF keep[i] THEN <<es[i]>> ELSE << >>) \o FilterSeq(es, keep, i + 1)

\* C1: in every reachable table state and for every key K and value V,
\* after xm_table_set(t, K, V) the lookup of K gives V, exactly one entry
\* of t has a key equal to K up to case, and a second set(K, V) does not
\* grow the table.
C1_SetThenGet ==
    ~fault =>
    \A n \in DOMAIN tab, K \in Keys, V \in Vals :
        LET r  == xm_table_set(heap, tab[n], K, V)
            r2 == xm_table_set(r.H, r.t, K, V)
        IN /\ ~r.fault
           /\ xm_table_get(r.H, r.t, K) = [ret |-> V, fault |-> FALSE]
           /\ Cardinality(Matching(Entries(r.H, r.t), K)) = 1
           /\ ~r2.fault
           /\ r2.t.a.nelts = r.t.a.nelts

\* C2: in every reachable table state, for every bucket b whose
\* index_initialized bit is set, 0 <= index_first[b] <= index_last[b] < count
\* and every entry whose key hashes to b lies within
\* [index_first[b], index_last[b]].
C2_IndexRange ==
    \A n \in DOMAIN tab : \A b \in tab[n].index_initialized :
        /\ 0 <= tab[n].index_first[b]
        /\ tab[n].index_first[b] <= tab[n].index_last[b]
        /\ tab[n].index_last[b] < tab[n].a.nelts
        /\ \A i \in 1..tab[n].a.nelts :
              LET e == heap[tab[n].a.elts][i]
              IN (e.key # NULL /\ TABLE_HASH(e.key) = b)
                 => (tab[n].index_first[b] <= i - 1 /\ i - 1 <= tab[n].index_last[b])

\* C5: in every reachable table state and for every key K, after
\* xm_table_unset(t, K) the entries of t are the previous entries without
\* those that match K, in the same order, and nothing at all changes when
\* the bucket of K is unpopulated.
C5_UnsetFilters ==
    ~fault =>
    \A n \in DOMAIN tab, K \in Keys :
        LET es == Entries(heap, tab[n])
            r  == xm_table_unset(heap, tab[n], K)
        IN /\ ~r.fault
           /\ Entries(r.H, r.t) =
                 FilterSeq(es, SeqOf([i \in 1..Len(es) |-> ~KeyEq(es[i].key, K)]), 1)
           /\ TABLE_HASH(K) \notin tab[n].index_initialized
                 => (r.t = tab[n] /\ r.H = heap)

\* C6: xm_table_get(t, K) returns the value of the earliest entry of the
\* whole table whose key is K up to case, and not-found (NULL) exactly when
\* no entry matches or K is null.
C6_GetFirstMatch ==
    ~fault =>
    \A n \in DOMAIN tab, K \in Keys \cup {NULL} :
        LET es == Entries(heap, tab[n])
            ms == Matching(es, K)
        IN xm_table_get(heap, tab[n], K) =
              [ret |-> IF ms = {} THEN NULL ELSE es[Least(ms)].val, fault |-> FALSE]

\* the values of the entries of es at the positions ms, joined with ", "
RECURSIVE JoinVals(_, _)
JoinVals(es, ms) ==
    IF Cardinality(ms) = 1 THEN es[Least(ms)].val
    ELSE es[Least(ms)].val \o CommaSpace \o JoinVals(es, ms \ {Least(ms)})

\* C7: xm_table_compress(t, flags) leaves one entry for every group of
\* entries with keys equal up to case: its value is the values of the group
\* joined with ", " in table order under the merge policy, the value of the
\* last entry of the group under the overwrite policy; no other entry
\* appears.
C7_CompressCollapses ==
    ~fault =>
    \A n \in DOMAIN tab, flags \in Flags :
        LET es == Entries(heap, tab[n])
            r  == xm_table_compress(heap, tab[n], flags)
            rs == Entries(r.H, r.t)
        IN /\ ~r.fault
           /\ \A i \in 1..Len(es) :
                 LET ms == Matching(es, es[i].key)
                     out == Matching(rs, es[i].key)
                 IN /\ Cardinality(out) = 1
                    /\ rs[Least(out)].val =
                          IF flags = XM_OVERLAP_TABLES_MERGE THEN JoinVals(es, ms)
                          ELSE es[Greatest(ms)].val
           /\ \A j \in 1..Len(rs) : \E i \in 1..Len(es) : KeyEq(rs[j].key, es[i].key)

\* C10: xm_table_overlay(p, overlay, base) returns a table whose entries
\* are overlay's followed by base's, with the index of a full rebuild, so a
\* lookup gives overlay's value for a key of overlay and base's value for a
\* key of base alone.
C10_OverlayOrder ==
    ~fault =>
    \A o \in DOMAIN tab :
        LET b  == Other(o)
            r  == xm_table_overlay(heap, 1, tab[o], tab[b])
            eo == Entries(heap, tab[o])
            eb == Entries(heap, tab[b])
        IN /\ ~r.fault
           /\ Entries(r.H, r.t) = eo \o eb
           /\ \A K \in Keys :
                 xm_table_get(r.H, r.t, K).ret =
                    IF Matching(eo, K) # {} THEN eo[Least(Matching(eo, K))].val
                    ELSE IF Matching(eb, K) # {} THEN eb[Least(Matching(eb, K))].val
                    ELSE NULL

\* C11: in every reachable table state and for every key K and value V2,
\* xm_table_merge(t, K, V2) turns the value of the first entry matching K
\* into old value, ", ", V2 and leaves the count, the order and the index
\* alone; when no entry matches K it does to the entries and the index what
\* xm_table_add(t, K, V2) does; merge(K, V2) after set(K, V1) makes the
\* lookup of K give V1, ", ", V2.
C11_MergeAppends ==
    ~fault =>
    \A n \in DOMAIN tab, K \in Keys, V2 \in Vals :
        LET es == Entries(heap, tab[n])
            ms == Matching(es, K)
            r  == xm_table_merge(heap, tab[n], K, V2)
            ad == xm_table_add(heap, tab[n], K, V2)
        IN /\ ~r.fault
           /\ IF ms # {}
              THEN /\ r.t = tab[n]
                   /\ Entries(r.H, r.t) =
                         SeqOf([i \in 1..Len(es) |->
                            IF i = Least(ms)
                            THEN [es[i] EXCEPT !.val = es[i].val \o CommaSpace \o V2]
                            ELSE es[i]])
              ELSE /\ r.t = ad.t
                   /\ Entries(r.H, r.t) = Entries(ad.H, ad.t)
           /\ \A V1 \in Vals :
                 LET s == xm_table_set(heap, tab[n], K, V1)
                     m == xm_table_merge(s.H, s.t, K, V2)
                 IN /\ ~s.fault /\ ~m.fault
                    /\ xm_table_get(m.H, m.t, K).ret = V1 \o CommaSpace \o V2

\* the capacity xm_array_cat is said to leave: the old one when it holds
\* need elements, otherwise the old one doubled until it does
RECURSIVE Doubled(_, _, _)
Doubled(cap, need, fuel) ==
    IF cap >= need \/ fuel = 0 THEN cap ELSE Doubled(cap * 2, need, fuel - 1)

\* C12: in every reachable array state, for two headers dst and src,
\* xm_array_cat(dst, src) makes dst.nelts the sum of the two counts, keeps
\* the old elements of dst in front, puts the active elements of src behind
\* them in order, leaves src as it was, and leaves dst's capacity alone when
\* it sufficed and otherwise makes it the old capacity doubled one or more
\* times until it holds the new count.
C12_CatAppends ==
    \A d \in DOMAIN arr, s \in DOMAIN arr, ascending \in BOOLEAN :
        d # s =>
        LET r    == xm_array_cat(heap, arr[d], arr[s], ascending)
            need == arr[d].nelts + arr[s].nelts
        IN /\ r.a.nelts = need
           /\ ArrElts(r.H, r.a) = ArrElts(heap, arr[d]) \o ArrElts(heap, arr[s])
           /\ ArrElts(r.H, arr[s]) = ArrElts(heap, arr[s])
           /\ r.a.nalloc = IF need <= arr[d].nalloc THEN arr[d].nalloc
                           ELSE Doubled(arr[d].nalloc * 2, need, need)

\* what C13 says of xm_array_copy(p, src) apart from the capacity: the
\* result r has storage of its own, the count and the active elements of
\* src, and zero in every slot from nelts on
CopyOf(r, src) ==
    /\ r.a.elts \notin DOMAIN heap
    /\ Len(r.H[r.a.elts]) = r.a.nalloc
    /\ r.a.nelts = src.nelts
    /\ ArrElts(r.H, r.a) = ArrElts(heap, src)
    /\ \A i \in (r.a.nelts + 1)..r.a.nalloc : r.H[r.a.elts][i] = Zero(src.elt_size)
    /\ \A b \in DOMAIN heap : r.H[b] = heap[b]

\* C13 as stated: in every reachable array state, xm_array_copy(p, src)
\* returns a new array with its own storage whose nalloc is src.nalloc,
\* whose nelts is src.nelts, whose active elements are src's and whose
\* slots nelts..nalloc-1 are zero.
C13_CopyKeepsCapacity ==
    \A s \in DOMAIN arr :
        LET r == xm_array_copy(heap, 1, arr[s])
        IN CopyOf(r, arr[s]) /\ r.a.nalloc = arr[s].nalloc

\* C13 amended: the same, with nalloc equal to src.nalloc when that is at
\* least 1 and equal to 1 when src.nalloc is 0 (the header copy of an empty
\* array).
C13_CopyClampsCapacity ==
    \A s \in DOMAIN arr :
        LET r == xm_array_copy(heap, 1, arr[s])
        IN CopyOf(r, arr[s]) /\ r.a.nalloc = Max(1, arr[s].nalloc)

\* a copy has been made of an array of capacity 0
C13_Witness ==
    /\ last.op = "copy"
    /\ arr[last.b].nalloc = 0
    /\ arr[last.a].nalloc = 1
    /\ arr[last.a].elts # arr[last.b].elts

\* the key lists and the callbacks given to xm_table_vdo
VdoArgs == UNION {[1..k -> Keys] : k \in 0..2}
VdoRets == UNION {[1..k -> BOOLEAN] : k \in 0..2}

\* the members of a set of positions in ascending order
RECURSIVE Ascending(_)
Ascending(S) == IF S = {} THEN << >> ELSE <<Least(S)>> \o Ascending(S \ {Least(S)})

\* the calls made when the positions ps are visited in order until the
\* callback returns false
RECURSIVE CallsUntilFalse(_, _, _)
CallsUntilFalse(ps, rets, calls) ==
    IF ps = << >> THEN calls
    ELSE IF comp(rets, Len(calls) + 1)
         THEN CallsUntilFalse(Tail(ps), rets, Append(calls, ps[1]))
         ELSE Append(calls, ps[1])

\* one scan per key, each over the entries of es that match the key
RECURSIVE CallsPerKey(_, _, _, _)
CallsPerKey(args, es, rets, calls) ==
    IF args = << >> THEN calls
    ELSE CallsPerKey(Tail(args), es, rets,
             CallsUntilFalse(Ascending({i - 1 : i \in Matching(es, args[1])}),
                             rets, calls))

\* C14: in every reachable table state, xm_table_vdo with one or more keys
\* calls the callback, for each key in argument order, on the entries that
\* match the key in table order until it returns false, which ends the scan
\* of that key only; with no keys it calls it on the entries in table order
\* and stops at the first false; it returns false exactly when some call
\* returned false.
C14_VdoEarlyTermination ==
    \A n \in DOMAIN tab, args \in VdoArgs, rets \in VdoRets :
        LET es == Entries(heap, tab[n])
            r  == xm_table_vdo(heap, tab[n], SeqOf(args), SeqOf(rets))
            expected ==
               IF Len(args) = 0
               THEN CallsUntilFalse(Ascending({i - 1 : i \in {j \in 1..Len(es) :
                                                             es[j].key # NULL}}),
                                    SeqOf(rets), << >>)
               ELSE CallsPerKey(SeqOf(args), es, SeqOf(rets), << >>)
        IN /\ r.calls = expected
           /\ r.ret = (\A k \in 1..Len(r.calls) : comp(SeqOf(rets), k))

\* C15: every arena in the pool cache is in the cache and holds no
\* allocation, and the arena xm_mpool_agent_alloc has just returned,
\* recycled or fresh, holds none either.
C15_CachedArenasEmpty ==
    /\ \A i \in 1..Len(mpa.cache_list) :
          /\ pools[mpa.cache_list[i]].st = "cached"
          /\ ~pools[mpa.cache_list[i]].used
    /\ (last.op = "alloc" /\ last.n # 0)
          => (pools[last.n].st = "held" /\ ~pools[last.n].used)

\* an arena that held allocations has been released and sits in the cache
C15_Witness ==
    /\ last.op = "free"
    /\ last.ret = <<1>>
    /\ pools[last.n].st = "cached"
    /\ \E i \in 1..Len(mpa.cache_list) : mpa.cache_list[i] = last.n

\* the arenas created so far that are in the cache
Cached == {mp \in DOMAIN pools : pools[mp].st = "cached"}

\* C16: xm_mpool_agent_alloc on a non-empty cache returns the arena put
\* into the cache last (the one just released, or the last one
\* pre-allocated), takes it off the list and lowers cur_cache_n by one; on
\* an empty cache cur_cache_n is 0 and stays 0 and the arena returned is a
\* new one of pool_size.
C16_AllocTakesLast ==
    [][ last'.op = "alloc" =>
        IF ~list_empty(mpa.cache_list)
        THEN /\ last'.n = Head(mpa.cache_list)
             /\ mpa.cur_cache_n >= 1
             /\ mpa'.cur_cache_n = mpa.cur_cache_n - 1
             /\ mpa'.cache_list = Tail(mpa.cache_list)
             /\ pools'[last'.n].st = "held"
             /\ (last.op = "free" /\ pools[last.n].st = "cached") => last'.n = last.n
             /\ last.op = "init" => \A mp \in Cached : mp <= last'.n
        ELSE /\ mpa.cur_cache_n = 0
             /\ mpa'.cur_cache_n = 0
             /\ mpa'.cache_list = << >>
             /\ last'.n # 0 => /\ last'.n \notin DOMAIN pools
                               /\ pools'[last'.n].st = "held"
                               /\ pools'[last'.n].size = mpa.pool_size
      ]_vars

\* an arena released into a cache that held another one has been handed out
\* again by the next xm_mpool_agent_alloc
C16_Witness ==
    /\ last.op = "alloc"
    /\ last.n # 0
    /\ mpa.cur_cache_n >= 1
    /\ \E mp \in Cached : mp > last.n

\* C17: xm_mpool_agent_free(mpa, mp) with cur_cache_n < max_cache_n resets
\* the arena, puts it into the cache and raises cur_cache_n by one;
\* otherwise it destroys the arena and leaves the list and cur_cache_n
\* alone; so a cached count that is at most max_cache_n stays at most
\* max_cache_n through every acquire and release.
C17_FreeRespectsMax ==
    [][ /\ last'.op = "free" =>
           IF mpa.cur_cache_n < mpa.max_cache_n
           THEN /\ mpa'.cur_cache_n = mpa.cur_cache_n + 1
                /\ mpa'.cache_list = <<last'.n>> \o mpa.cache_list
                /\ pools'[last'.n].st = "cached"
                /\ ~pools'[last'.n].used
           ELSE /\ mpa' = mpa
                /\ pools'[last'.n].st = "destroyed"
        /\ mpa.cur_cache_n <= mpa.max_cache_n
              => mpa'.cur_cache_n <= mpa'.max_cache_n
      ]_vars

\* max_cache_n + 1 arenas were acquired and all are released again: the
\* last release found the cache full and destroyed its arena
C17_Witness ==
    /\ last.op = "free"
    /\ pools[last.n].st = "destroyed"
    /\ mpa.cur_cache_n = mpa.max_cache_n
    /\ \A mp \in DOMAIN pools : pools[mp].st # "held"

\* C18: after any sequence of make, push, pop, clear, cat, copy, copy_hdr
\* and append, every array header has 0 <= nelts <= nalloc and its storage
\* holds at least nalloc elements.
C18_ArrayInvariant ==
    \A h \in DOMAIN arr :
        /\ 0 <= arr[h].nelts
        /\ arr[h].nelts <= arr[h].nalloc
        /\ arr[h].elts \in DOMAIN heap
        /\ arr[h].nalloc <= Len(heap[arr[h].elts])

\* two headers on one block, one of them emptied by pops and the other
\* filled to its capacity
C18_Witness ==
    /\ last.op = "pop"
    /\ last.n = 0
    /\ arr[last.a].nelts = 0
    /\ \E h \in DOMAIN arr :
          /\ h # last.a
          /\ arr[h].elts = arr[last.a].elts
          /\ arr[h].nelts = arr[h].nalloc
          /\ arr[h].nelts >= 2

\* C19: for every two keys over the byte alphabet, keys that the full
\* case-insensitive comparison holds equal have equal checksums and the
\* same bucket, and the lookup of one key in a table that holds the other
\* finds it exactly when the full comparison holds them equal.
C19_ChecksumSound ==
    last.op = "get" =>
        LET k1 == Elt(heap[tab["t"].a.elts], 0).key
            k2 == last.key
        IN /\ strcasecmp(k1, k2) = 0
                 => /\ COMPUTE_KEY_CHECKSUM(k1) = COMPUTE_KEY_CHECKSUM(k2)
                    /\ TABLE_HASH(k1) = TABLE_HASH(k2)
           /\ (last.ret # NULL) <=> (strcasecmp(k1, k2) = 0)

\* a key longer than the four bytes of the checksum has been found under
\* a key that differs from it in case only
C19_Witness ==
    /\ last.op = "get"
    /\ Len(last.key) = MaxKeyLen
    /\ last.key # Elt(heap[tab["t"].a.elts], 0).key
    /\ strcasecmp(last.key, Elt(heap[tab["t"].a.elts], 0).key) = 0
    /\ last.ret = <<49>>

\* no two entries of es have keys equal up to case
NoDuplicates(es) ==
    \A i, j \in 1..Len(es) : (i # j) => ~KeyEq(es[i].key, es[j].key)

Seen(H, t) ==
    [count   |-> t.a.nelts,
     entries |-> Entries(H, t),
     lookups |-> FcnOf([K \in Keys |-> xm_table_get(H, t, K)])]

\* the results of the mutations of table t on heap H that C21 names
Mutations(H, t) ==
    {xm_table_set(H, t, K, V) : K \in Keys, V \in Vals}
    \cup {xm_table_merge(H, t, K, V) : K \in Keys, V \in Vals}
    \cup {xm_table_unset(H, t, K) : K \in Keys}
    \cup {xm_table_add(H, t, K, V) : K \in Keys, V \in Vals}
    \cup {xm_table_compress(H, t, flags) : flags \in Flags}

\* C21: for every two tables overlay and base, base empty or not, a set,
\* merge, unset, add or compress applied to the result of
\* xm_table_overlay(p, overlay, base) leaves the count, the entries, the
\* values and the lookup results of overlay and of base as they were.
C21_OverlayCopyOnWrite ==
    ~fault =>
    \A o \in DOMAIN tab :
        LET b == Other(o)
            r == xm_table_overlay(heap, 1, tab[o], tab[b])
        IN /\ ~r.fault
           /\ \A q \in Mutations(r.H, r.t) :
                 /\ ~q.fault
                 /\ Seen(q.H, tab[o]) = Seen(heap, tab[o])
                 /\ Seen(q.H, tab[b]) = Seen(heap, tab[b])

\* a scan of the entries es from position i (from 0) to the end with the
\* full comparison alone: calls is the positions given to the callback so
\* far; the scan ends when the callback returns false
RECURSIVE LinearScan(_, _, _, _, _)
LinearScan(es, K, rets, i, calls) ==
    IF i >= Len(es) THEN calls
    ELSE IF es[i + 1].key # NULL /\ strcasecmp(es[i + 1].key, K) = 0
         THEN IF comp(rets, Len(calls) + 1)
              THEN LinearScan(es, K, rets, i + 1, Append(calls, i))
              ELSE Append(calls, i)
         ELSE LinearScan(es, K, rets, i + 1, calls)

\* C22: in every reachable table state and for every key K, the calls
\* xm_table_vdo(comp, rec, t, K) makes of the callback are those of a scan
\* of the whole table from its beginning that looks at neither bucket nor
\* checksum: the entries whose key is K up to case, in table order.
C22_VdoLikeLinearScan ==
    \A n \in DOMAIN tab, K \in Keys, rets \in VdoRets :
        xm_table_vdo(heap, tab[n], <<K>>, SeqOf(rets)).calls
            = LinearScan(Entries(heap, tab[n]), K, SeqOf(rets), 0, << >>)

\* the values of the entries of es at the positions ms, in table order
ValsAt(es, ms) == SeqOf([k \in 1..Cardinality(ms) |-> es[Ascending(ms)[k]].val])

\* C23: in every reachable table state and for every key K,
\* xm_table_getm(p, t, K) returns not-found when no entry matches K, the
\* value of the entry when one entry matches, and otherwise the values of
\* the matching entries in table order joined with a single ','; the table
\* and its storage are as before.
C23_GetmJoins ==
    ~fault =>
    \A n \in DOMAIN tab, K \in Keys :
        LET es == Entries(heap, tab[n])
            ms == Matching(es, K)
            r  == xm_table_getm(heap, 1, tab[n], K)
        IN /\ r.ret = IF ms = {} THEN NULL
                      ELSE IF Cardinality(ms) = 1 THEN es[Least(ms)].val
                      ELSE JoinWith(ValsAt(es, ms), 44)
           /\ \A b \in DOMAIN heap : r.H[b] = heap[b]

\* the table that xm_table_add of the entries es[i..] in order makes of r.t
RECURSIVE AddAll(_, _, _)
AddAll(r, es, i) ==
    IF i > Len(es) THEN r
    ELSE AddAll(xm_table_add(r.H, r.t, es[i].key, es[i].val), es, i + 1)

\* the entries that xm_table_compress(flags) leaves of a table made of the
\* entries es
CompressOf(es, flags) ==
    LET m == xm_table_make(<< >>, 1, Len(es))
        f == AddAll([H |-> m.H, t |-> m.t], es, 1)
        c == xm_table_compress(f.H, f.t, flags)
    IN Entries(c.H, c.t)

\* C24: in every reachable table state, xm_table_overlap(a, b, flags) leaves
\* in a what compress(flags) leaves of a's entries followed by b's, and
\* leaves b as it was; under the overwrite policy the lookup of a key of b
\* gives b's last value for it, under the merge policy the values of a and
\* then of b for it joined with ", "; two empty tables leave a unchanged.
C24_OverlapIsCatCompress ==
    ~fault =>
    \A a \in DOMAIN tab, flags \in Flags, ascending \in BOOLEAN :
        LET b   == Other(a)
            ea  == Entries(heap, tab[a])
            eb  == Entries(heap, tab[b])
            r   == xm_table_overlap(heap, tab[a], tab[b], flags, ascending)
        IN /\ ~r.fault
           /\ Entries(r.H, r.t) = CompressOf(ea \o eb, flags)
           /\ Entries(r.H, tab[b]) = eb
           /\ \A K \in Keys :
                 Matching(eb, K) # {} =>
                    xm_table_get(r.H, r.t, K).ret =
                       IF flags = XM_OVERLAP_TABLES_MERGE
                       THEN JoinVals(ea \o eb, Matching(ea \o eb, K))
                       ELSE eb[Greatest(Matching(eb, K))].val
           /\ (ea = << >> /\ eb = << >>) => (r.t = tab[a] /\ r.H = heap)

\* the positions of es at which a key occurs for the first time
FirstOccurrences(es) ==
    {i \in 1..Len(es) : \A j \in 1..(i - 1) : ~KeyEq(es[j].key, es[i].key)}

\* C25: in every reachable table state, after xm_table_compress no two
\* entries have keys equal up to case and the entries left are, in table
\* order, those at the first occurrence of each key (with the key as
\* spelled there); a table of at most one entry is left as it is, and a
\* second compress changes nothing.
C25_CompressKeepsFirstPlaces ==
    ~fault =>
    \A n \in DOMAIN tab, flags \in Flags :
        LET es == Entries(heap, tab[n])
            r  == xm_table_compress(heap, tab[n], flags)
            rs == Entries(r.H, r.t)
            fo == Ascending(FirstOccurrences(es))
        IN /\ ~r.fault
           /\ NoDuplicates(rs)
           /\ Len(rs) = Len(fo)
           /\ \A k \in 1..Len(rs) : rs[k].key = es[fo[k]].key
           /\ Len(es) <= 1 => (r.t = tab[n] /\ r.H = heap)
           /\ \A f2 \in Flags :
                 xm_table_compress(r.H, r.t, f2) = [H |-> r.H, t |-> r.t, fault |-> FALSE]

\* C26: in every reachable table state and for every key K and value V,
\* K in the table or not, xm_table_add(t, K, V) appends the one entry
\* (K, V): the count grows by one, the entries before it are as they were
\* and where they were, index_last of K's bucket is the new position,
\* index_first of that bucket is the new position if the bucket was
\* unpopulated and is unchanged otherwise, and no other bucket changes.
C26_AddAppends ==
    \A n \in DOMAIN tab, K \in Keys, V \in Vals :
        LET t  == tab[n]
            es == Entries(heap, t)
            r  == xm_table_add(heap, t, K, V)
            h  == TABLE_HASH(K)
        IN /\ ~r.fault
           /\ r.t.a.nelts = t.a.nelts + 1
           /\ Entries(r.H, r.t) =
                 Append(es, [key |-> K, val |-> V,
                             key_checksum |-> COMPUTE_KEY_CHECKSUM(K)])
           /\ r.t.index_initialized = t.index_initialized \cup {h}
           /\ r.t.index_last[h] = t.a.nelts
           /\ r.t.index_first[h] = IF h \in t.index_initialized THEN t.index_first[h]
                                   ELSE t.a.nelts
           /\ \A b \in t.index_initialized \ {h} :
                 /\ r.t.index_first[b] = t.index_first[b]
                 /\ r.t.index_last[b] = t.index_last[b]

\* a table that three adds of one key, in two spellings, have filled: the
\* bucket runs from the first entry to the last one
C26_Witness ==
    \E n \in DOMAIN tab :
        LET es == Entries(heap, tab[n])
        IN /\ ~fault
           /\ tab[n].a.elts # tab[Other(n)].a.elts
           /\ Len(es) = 3
           /\ \A i \in 1..3 : KeyEq(es[i].key, <<97>>)
           /\ es[1].key # es[3].key
           /\ tab[n].index_first[TABLE_HASH(<<97>>)] = 0
           /\ tab[n].index_last[TABLE_HASH(<<97>>)] = 2

\* C27: xm_mpool_agent_init puts 100000, 4096 and 1000 in place of a zero
\* max_cache_n, pool_size and pre_alloc_n and keeps every other argument,
\* ends with cur_cache_n equal to the number of arenas created, all of them
\* and no others in the cache, and returns 0 whether creations failed or
\* not.
C27_InitDefaults ==
    last.op = "agent_init" =>
        /\ mpa.max_cache_n = IF last.key[1] = 0 THEN 100000 ELSE last.key[1]
        /\ mpa.pool_size = IF last.key[2] = 0 THEN 4096 ELSE last.key[2]
        /\ mpa.pre_alloc_n = IF last.key[3] = 0 THEN 1000 ELSE last.key[3]
        /\ mpa.cur_cache_n = last.n
        /\ Len(mpa.cache_list) = last.n
        /\ Cardinality(DOMAIN pools) = last.n
        /\ \A i \in 1..Len(mpa.cache_list) :
              /\ pools[mpa.cache_list[i]].st = "cached"
              /\ pools[mpa.cache_list[i]].size = mpa.pool_size
        /\ \A i, j \in 1..Len(mpa.cache_list) :
              i # j => mpa.cache_list[i] # mpa.cache_list[j]
        /\ last.ret = <<0>>

\* all three arguments were zero and every second creation failed: half
\* of the default number of arenas is in the cache
C27_Witness ==
    /\ last.op = "agent_init"
    /\ last.key = <<0, 0, 0>>
    /\ last.ret = <<0>>
    /\ mpa.cur_cache_n = 500
    /\ mpa.pre_alloc_n = 1000

\* the element sizes tried with xm_array_make
EltSizes == {PtrSize, EntrySize}

\* C28: in every reachable array state and for every n, zero and negative
\* included, xm_array_make(p, n, elt_size) returns an array on storage of
\* its own with nelts = 0 and nalloc = max(n, 1), all nalloc slots zero;
\* the array a caller has just made has that count and that capacity.
C28_MakeClampsAndClears ==
    /\ \A n \in MakeSizes, sz \in EltSizes :
          LET r == xm_array_make(heap, 1, n, sz)
          IN /\ r.a.nelts = 0
             /\ r.a.nalloc = Max(n, 1)
             /\ r.a.elt_size = sz
             /\ r.a.elts \notin DOMAIN heap
             /\ Len(r.H[r.a.elts]) = r.a.nalloc
             /\ \A i \in 1..r.a.nalloc :
                   r.H[r.a.elts][i] = IF sz = EntrySize THEN ZeroEntry ELSE NULL
             /\ \A b \in DOMAIN heap : r.H[b] = heap[b]
    /\ last.op = "make" =>
          /\ arr[last.a].nelts = 0
          /\ arr[last.a].nalloc = Max(last.n, 1)
          /\ Len(heap[arr[last.a].elts]) = arr[last.a].nalloc

\* an array has been made with a negative number of elements while the
\* other array holds elements
C28_Witness ==
    /\ last.op = "make"
    /\ last.n < 0
    /\ arr[last.a].nalloc = 1
    /\ \E h \in DOMAIN arr : arr[h].nelts = MaxArr

\* C29: in every reachable array state, xm_array_pop on an array without
\* elements, or on the null pointer, returns no element and changes
\* nothing; on an array with elements it lowers nelts by one and returns
\* the slot of the element that was last, and the capacity, the storage
\* and every element stored, the one given up included, are as before.
C29_PopReturnsLast ==
    /\ \A h \in DOMAIN arr :
          LET a == arr[h]
              r == xm_array_pop(heap, a)
          IN IF a.nelts = 0
             THEN r = [H |-> heap, a |-> a, ret |-> -1]
             ELSE /\ r.ret = a.nelts - 1
                  /\ r.a.nelts = a.nelts - 1
                  /\ r.a.nalloc = a.nalloc
                  /\ r.a.elts = a.elts
                  /\ r.a = [a EXCEPT !.nelts = a.nelts - 1]
                  /\ r.H = heap
    /\ xm_array_pop(heap, NullArray) = [H |-> heap, a |-> NullArray, ret |-> -1]
    /\ (last.op = "pop" /\ last.a \in DOMAIN arr /\ last.n >= 0)
          => arr[last.a].nelts = last.n

\* the second of two elements has been popped off an array
C29_Witness ==
    /\ last.op = "pop"
    /\ last.a \in DOMAIN arr
    /\ last.n = 1
    /\ arr[last.a].nelts = 1
    /\ arr[last.a].nalloc >= 2

\* C30: in every reachable table state, a bucket's bit of
\* index_initialized is clear exactly when no entry of the table has a key
\* that hashes to the bucket.
C30_BitsMatchEntries ==
    \A n \in DOMAIN tab, b \in 0..(TABLE_HASH_SIZE - 1) :
        LET es == Entries(heap, tab[n])
        IN (b \notin tab[n].index_initialized)
              <=> (\A i \in 1..Len(es) :
                      es[i].key # NULL => TABLE_HASH(es[i].key) # b)

HashingTo(es, b) == {i \in 1..Len(es) : es[i].key # NULL /\ TABLE_HASH(es[i].key) = b}

\* C31: in every reachable table state and for every bucket b whose
\* index_initialized bit is set and that has an entry, index_first[b] is the
\* position of the first entry whose key hashes to b and index_last[b] the
\* position of the last one, as table_reindex would compute them.
C31_IndexIsExact ==
    \A n \in DOMAIN tab : \A b \in tab[n].index_initialized :
        LET hs == HashingTo(Entries(heap, tab[n]), b)
        IN hs # {} => /\ tab[n].index_first[b] = Least(hs) - 1
                      /\ tab[n].index_last[b] = Greatest(hs) - 1

\* the bucket index of table t: which buckets are in use and their ranges
IndexOf(t) ==
    [initialized |-> t.index_initialized,
     first |-> FcnOf([b \in t.index_initialized |-> t.index_first[b]]),
     last  |-> FcnOf([b \in t.index_initialized |-> t.index_last[b]])]

\* C33: in every reachable table state, xm_table_copy(p, t) returns a table
\* with t's entries and t's bucket index on which every lookup gives what it
\* gives on t; an add, set, merge, unset or compress of the copy leaves the
\* entries, the count and the lookups of t as they were, and one of t
\* leaves those of the copy as they were.
C33_CopyIsDeep ==
    ~fault =>
    \A n \in DOMAIN tab :
        LET t == tab[n]
            c == xm_table_copy(heap, 1, t)
        IN /\ c.t.a.elts # t.a.elts
           /\ Seen(c.H, c.t) = Seen(heap, t)
           /\ IndexOf(c.t) = IndexOf(t)
           /\ Seen(c.H, t) = Seen(heap, t)
           /\ \A q \in Mutations(c.H, c.t) :
                 ~q.fault => Seen(q.H, t) = Seen(heap, t)
           /\ \A q \in Mutations(c.H, t) :
                 ~q.fault => Seen(q.H, c.t) = Seen(c.H, c.t)

\* t holds one entry whose value a merge has made and s is the copy of t,
\* with storage of its own
C33_Witness ==
    /\ ~fault
    /\ tab["t"].a.nelts = 1
    /\ tab["s"].a.elts # tab["t"].a.elts
    /\ Entries(heap, tab["s"]) = Entries(heap, tab["t"])
    /\ IndexOf(tab["s"]) = IndexOf(tab["t"])
    /\ Len(Entries(heap, tab["t"])[1].val) = 4
    /\ tab["s"].a.nalloc = tab["t"].a.nalloc

\* the arrays that one push (with the caller's store into the slot), pop,
\* clear or concatenation makes of the array c on heap H
OneOp(H, c) ==
    {LET r == xm_array_push(H, c)
     IN [H |-> WriteElt(r.H, r.a, r.a.nelts - 1, v), a |-> r.a] : v \in EltVals}
    \cup {LET r == xm_array_pop(H, c) IN [H |-> r.H, a |-> r.a]}
    \cup {xm_array_clear(H, c)}
    \cup {xm_array_cat(H, c, arr[s], asc) : s \in DOMAIN arr, asc \in BOOLEAN}

\* the arrays that at most k such operations make of c
RECURSIVE AfterOps(_, _, _)
AfterOps(H, c, k) ==
    IF k = 0 THEN {[H |-> H, a |-> c]}
    ELSE {[H |-> H, a |-> c]}
         \cup UNION {AfterOps(r.H, r.a, k - 1) : r \in OneOp(H, c)}

MaxCopyOps == 2

\* C34: in every reachable array state and for every array src, whatever
\* pushes, pops, clears and concatenations are applied to
\* xm_array_copy_hdr(p, src), the active elements, nelts and nalloc of src
\* stay as they were.
C34_CopyHdrNeverWritesShared ==
    \A s \in DOMAIN arr :
        LET c == xm_array_copy_hdr(heap, 1, arr[s])
        IN \A r \in AfterOps(c.H, c.a, MaxCopyOps) :
              ArrElts(r.H, arr[s]) = ArrElts(heap, arr[s])

\* the entries of es whose key is not K up to case, in their order
Others(es, K) ==
    FilterSeq(es, SeqOf([i \in 1..Len(es) |-> ~KeyEq(es[i].key, K)]), 1)

\* the results of xm_table_set, xm_table_merge and xm_table_add with key K
\* on table t
Writes(H, t, K) ==
    {xm_table_set(H, t, K, V) : V \in Vals}
    \cup {xm_table_merge(H, t, K, V) : V \in Vals}
    \cup {xm_table_add(H, t, K, V) : V \in Vals}

\* the keys written: those of the entries and "aa", another key of the
\* bucket of "a"
WriteKeys == Keys \cup {<<97, 97>>}

\* C35: in every reachable table state and for every key K and value V,
\* after xm_table_set, xm_table_merge or xm_table_add of (K, V) the entries
\* whose key is not K up to case are those of before, with their values,
\* as many and in the same order.
C35_WritesKeepOtherKeys ==
    ~fault =>
    \A n \in DOMAIN tab, K \in WriteKeys :
        \A r \in Writes(heap, tab[n], K) :
            ~r.fault =>
                Others(Entries(r.H, r.t), K) = Others(Entries(heap, tab[n]), K)

\* a table holds two entries of one key and behind them an entry of
\* another key: a set of the first key removes the second entry and moves
\* the third
C35_Witness ==
    /\ ~fault
    /\ \E n \in DOMAIN tab :
          LET es == Entries(heap, tab[n])
              r  == xm_table_set(heap, tab[n], <<97>>, <<49>>)
          IN /\ Len(es) = 3
             /\ KeyEq(es[1].key, <<97>>) /\ KeyEq(es[2].key, <<97>>)
             /\ es[3].key = <<98>>
             /\ tab[n].index_last[TABLE_HASH(<<97>>)] = 1
             /\ ~r.fault
             /\ Entries(r.H, r.t)[2] = es[3]

\* C36: in every reachable state of the pool cache, after an init in which
\* any of the creations may fail and any acquires and releases,
\* cur_cache_n is the number of arenas linked in cache_list, and the list
\* is empty exactly when cur_cache_n is 0.
C36_CountIsListLength ==
    /\ mpa.cur_cache_n = Len(mpa.cache_list)
    /\ list_empty(mpa.cache_list) <=> mpa.cur_cache_n = 0

\* an arena has been released into a cache whose init lost a creation
C36_Witness ==
    /\ last.op = "free"
    /\ pools[last.n].st = "cached"
    /\ mpa.cur_cache_n >= 1
    /\ Cardinality(DOMAIN pools) < mpa.pre_alloc_n

\* the arenas linked in the list, and the list without repetition
Linked(list) == {list[i] : i \in 1..Len(list)}
NoRepeat(list) == \A i, j \in 1..Len(list) : list[i] = list[j] => i = j

\* every arena created is cached, held or destroyed; the arenas linked in
\* cache_list, each once, are those that are cached
Conserved(m, P) ==
    /\ \A mp \in DOMAIN P : P[mp].st \in {"cached", "held", "destroyed"}
    /\ NoRepeat(m.cache_list)
    /\ Linked(m.cache_list) = {mp \in DOMAIN P : P[mp].st = "cached"}

\* C37: with callers that release only arenas they hold, every state of the
\* pool cache has each arena ever created either cached, held or destroyed,
\* no arena twice in the cache and none both cached and held; the arena
\* xm_mpool_agent_alloc returns is a new one or one that was cached, never
\* a destroyed one nor one a caller holds, and the only one it hands out.
C37_ArenasConserved ==
    /\ Conserved(mpa, pools)
    /\ [][ /\ Conserved(mpa', pools')
           /\ (last'.op = "alloc" /\ last'.n # 0) =>
                 /\ last'.n \in DOMAIN pools => pools[last'.n].st = "cached"
                 /\ pools'[last'.n].st = "held"
                 /\ last'.n \notin Linked(mpa'.cache_list)
                 /\ \A mp \in DOMAIN pools :
                       mp # last'.n => pools'[mp] = pools[mp]
       ]_vars

\* an acquire has handed out a cached arena while a caller holds another
\* one and a third one is destroyed
C37_Witness ==
    /\ last.op = "alloc"
    /\ last.n # 0
    /\ last.n < Cardinality(DOMAIN pools)
    /\ \E mp \in DOMAIN pools : mp # last.n /\ pools[mp].st = "held"
    /\ \E mp \in DOMAIN pools : pools[mp].st = "destroyed"

\* the place (from 1) of reference p in the sequence of references refs
PlaceOf(refs, p) == CHOOSE i \in 1..Len(refs) : refs[i] = p

\* C32: for every sequence of n >= 1 references to entries, n a power of
\* two or not, table_mergesort returns a permutation of the references in
\* which the keys never descend under the comparison without case and in
\* which references to equal keys stand in the order they were given.
C32_MergesortStable ==
    last.op = "mergesort" =>
        LET cells  == heap[0]
            given  == last.val
            sorted == last.ret
            n      == Len(given)
        IN /\ ~fault
           /\ Len(sorted) = n
           /\ \A p \in 0..(n - 1) : \E i \in 1..n : sorted[i] = p
           /\ \A i, j \in 1..n :
                 i < j =>
                   LET c == strcasecmp(Elt(cells, sorted[i]).key,
                                       Elt(cells, sorted[j]).key)
                   IN /\ c <= 0
                      /\ c = 0 => PlaceOf(given, sorted[i]) < PlaceOf(given, sorted[j])

\* five references given from the last entry to the first, two of them to
\* one key, have been sorted: the last block of each pass was a short one
C32_Witness ==
    /\ last.op = "mergesort"
    /\ Len(last.val) = 5
    /\ last.val = Backwards(5)
    /\ last.ret # last.val
    /\ \E p, q \in 0..4 :
          /\ p < q
          /\ KeyEq(Elt(heap[0], p).key, Elt(heap[0], q).key)
          /\ Elt(heap[0], 4).key = <<98>>

\* next(n).prev == n and prev(n).next == n, as
\* XM_RING_CHECK_ELEM_CONSISTENCY asserts them
LinkedBothWays(L, n) ==
    /\ XM_RING_NEXT(L, n) \in DOMAIN L
    /\ XM_RING_PREV(L, n) \in DOMAIN L
    /\ XM_RING_PREV(L, XM_RING_NEXT(L, n)) = n
    /\ XM_RING_NEXT(L, XM_RING_PREV(L, n)) = n

\* every ring is a closed walk over elements, each met once and linked both
\* ways like the sentinel, no element is on two rings, and XM_RING_EMPTY
\* tells whether the walk meets an element
RingsConsistent(L) ==
    /\ \A hp \in RingHeads :
          LET w == XM_RING_FOREACH(L, hp)
          IN /\ Range(w) \subseteq RingElems
             /\ \A i, j \in 1..Len(w) : w[i] = w[j] => i = j
             /\ \A n \in {hp} \cup Range(w) : LinkedBothWays(L, n)
             /\ XM_RING_EMPTY(L, hp) <=> w = << >>
    /\ Range(XM_RING_FOREACH(L, h1)) \cap Range(XM_RING_FOREACH(L, h2)) = {}

C39_ConcatPrepend ==
    [][ LET a == last'.n
            b == last'.ret[1]
        IN /\ last'.op = "CONCAT" =>
                /\ XM_RING_FOREACH(heap', a) =
                      XM_RING_FOREACH(heap, a) \o XM_RING_FOREACH(heap, b)
                /\ XM_RING_EMPTY(heap', b)
                /\ XM_RING_LAST(heap', b) = XM_RING_SENTINEL(b)
           /\ last'.op = "PREPEND" =>
                /\ XM_RING_FOREACH(heap', a) =
                      XM_RING_FOREACH(heap, b) \o XM_RING_FOREACH(heap, a)
                /\ XM_RING_EMPTY(heap', b)
                /\ XM_RING_LAST(heap', b) = XM_RING_SENTINEL(b)
           /\ (last'.op \in {"CONCAT", "PREPEND"} /\ XM_RING_EMPTY(heap, b)) =>
                heap' = heap
      ]_vars

\* a concatenation has left all three elements on its first ring and the
\* second ring empty, with both links of its head at the sentinel
C39_Witness ==
    /\ last.op = "CONCAT"
    /\ Len(XM_RING_FOREACH(heap, last.n)) = 3
    /\ XM_RING_EMPTY(heap, last.ret[1])
    /\ XM_RING_LAST(heap, last.ret[1]) = XM_RING_SENTINEL(last.ret[1])

====
